---- MODULE Spec2Model ----
(***************************************************************************)
(* Model of the hex-grid core of spectrex: HexCoord arithmetic and         *)
(* HexLayout (hex.go), the HexGrid[T] container (hexgrid.go), the edge     *)
(* model and the render data (hexrender.go), the hit tester (hexinput.go)  *)
(* and the AnimationManager (animation.go).                                *)
(*                                                                         *)
(* Spec      : a HexGrid[int] under any sequence of Set, Delete, Fill and  *)
(*             Clear; Get, GetOk and Count are operators on its state.     *)
(* SpecClone : the grid and a Clone() of it, both mutated.                 *)
(* SpecEdges : the pure functions Size, All, normalizeEdge, GridEdges,     *)
(*             InteriorEdges and BoundaryEdges applied to grids of every   *)
(*             radius 0..MaxEdgeRadius.                                    *)
(* SpecIter  : the grid of Spec, mutated on the E-W axis, and its queries  *)
(*             All, Ring, ForEach, ForEachSet, ForEachRing and Neighbors,  *)
(*             with HexSpiral.                                             *)
(* SpecHex   : the coordinate functions Distance, Length, HexRing and      *)
(*             HexLine applied to the cells within MaxHexRadius.           *)
(* SpecLayout: hexRound, the round trip FromPixel(ToPixel(h)) of a         *)
(*             HexLayout and PointToSegmentDistance, in exact arithmetic   *)
(*             with the rounding errors of the floats as inputs.           *)
(* SpecHit   : HitTest, HitTestCell, HitTestEdge and HitTestInGrid of a    *)
(*             HexHitTester, one call in a run.                            *)
(* SpecShared: two goroutines that call the methods of one HexHitTester,   *)
(*             a read of a field in a step.                                *)
(* SpecRender: PrepareGridRenderData of a grid that was mutated.           *)
(* SpecLife  : the grid and its clone under mutators and queries.          *)
(* SpecAnim  : an AnimationManager under SimpleRotation, AddAnimation and  *)
(*             Update, with Update called again and again.                 *)
(***************************************************************************)
EXTENDS Integers, Sequences, FiniteSets, Bags, TLC

(* ------------------------------ bounds --------------------------------- *)

\* largest radius of the grid of Spec
MaxRadius == 1

\* number of Set, Delete, Fill and Clear calls in one run
MaxOps == 2

\* largest radius of the grid of SpecEdges
MaxEdgeRadius == 2

\* SpecHex calls the coordinate functions with cells up to this far from
\* the origin
MaxHexRadius == 2

\* SpecLayout takes fractional coordinates that are multiples of 1/den for
\* den up to this
MaxDen == 4

\* number of Animation objects of SpecAnim
MaxAnims == 2

\* longest Duration of an Animation of SpecAnim
MaxDuration == 2

\* longest deltaTime of an Update of SpecAnim
MaxDelta == 1

(* --------------------------- hex.go: HexCoord -------------------------- *)

HexCoord(q, r) == [Q |-> q, R |-> r]

Origin == HexCoord(0, 0)

HexDirE == 0
HexDirNE == 1
HexDirNW == 2
HexDirW == 3
HexDirSW == 4
HexDirSE == 5

HexDirection == HexDirE..HexDirSE

hexDirectionVectors ==
  [d \in HexDirection |->
     CASE d = HexDirE  -> HexCoord(1, 0)
       [] d = HexDirNE -> HexCoord(1, -1)
       [] d = HexDirNW -> HexCoord(0, -1)
       [] d = HexDirW  -> HexCoord(-1, 0)
       [] d = HexDirSW -> HexCoord(-1, 1)
       [] d = HexDirSE -> HexCoord(0, 1)]

abs(x) == IF x < 0 THEN -x ELSE x

S(h) == -h.Q - h.R

Add(h, other) == HexCoord(h.Q + other.Q, h.R + other.R)

Scale(h, k) == HexCoord(h.Q * k, h.R * k)

Neighbor(h, dir) == Add(h, hexDirectionVectors[dir])

\* the [6]HexCoord array of Neighbors(), as a sequence in direction order
CoordNeighbors(h) == [i \in 1..6 |-> Add(h, hexDirectionVectors[i - 1])]

\* Distance that leaves out the s component
Distance_IgnoresS(h, other) ==
  (abs(h.Q - other.Q) + abs(h.R - other.R)) \div 2

Distance(h, other) ==
  (abs(h.Q - other.Q) + abs(h.R - other.R) + abs(S(h) - S(other))) \div 2

Length(h) == (abs(h.Q) + abs(h.R) + abs(S(h))) \div 2

(* --------------------------- hex.go: traversal ------------------------- *)

\* the walk of HexRing stopping after five of the six sides
RECURSIVE RingWalk_FiveSides(_, _, _, _)
RingWalk_FiveSides(hex, i, j, radius) ==
  IF i >= 5 THEN <<>>
  ELSE IF j >= radius THEN RingWalk_FiveSides(hex, i + 1, 0, radius)
  ELSE <<hex>> \o RingWalk_FiveSides(Neighbor(hex, i), i, j + 1, radius)

\* the double loop of HexRing: i over the six directions, j over radius steps;
\* each step appends hex and moves on to its neighbour in direction i
RECURSIVE RingWalk(_, _, _, _)
RingWalk(hex, i, j, radius) ==
  IF i >= 6 THEN <<>>
  ELSE IF j >= radius THEN RingWalk(hex, i + 1, 0, radius)
  ELSE <<hex>> \o RingWalk(Neighbor(hex, i), i, j + 1, radius)

\* HexRing starting its walk at center + radius*W instead of center + radius*SW
HexRing_StartsWest(center, radius) ==
  IF radius <= 0 THEN <<center>>
  ELSE RingWalk(Add(center, Scale(hexDirectionVectors[HexDirW], radius)),
                0, 0, radius)

HexRing(center, radius) ==
  IF radius <= 0 THEN <<center>>
  ELSE RingWalk(Add(center, Scale(hexDirectionVectors[HexDirSW], radius)),
                0, 0, radius)

\* the loop of HexSpiral: r from 1 to radius
RECURSIVE SpiralLoop(_, _, _, _)
SpiralLoop(center, r, radius, results) ==
  IF r > radius THEN results
  ELSE SpiralLoop(center, r + 1, radius, results \o HexRing(center, r))

\* HexSpiral whose loop starts at ring 0
HexSpiral_FromRingZero(center, radius) == SpiralLoop(center, 0, radius, <<center>>)

HexSpiral(center, radius) == SpiralLoop(center, 1, radius, <<center>>)

(* ----------------------- hex.go: hexRound, HexLine --------------------- *)

\* A float64 is kept as a numerator over a positive denominator den that the
\* operands of one computation share. Every value HexLine interpolates is a
\* multiple of 1/n; the rounding error of the float64 arithmetic is smaller
\* than any difference between two such values and is a multiple of
\* 1/(n * Ulps) drawn from Noise.
Ulps == 16

Noise == -2..2

\* math.Round: to the nearest integer, halves away from zero
Round(num, den) ==
  IF num >= 0 THEN (2 * num + den) \div (2 * den)
  ELSE -((2 * (-num) + den) \div (2 * den))

\* hexRound that rounds each component and resets none
hexRound_NoReset(q, r, den, es) == HexCoord(Round(q, den), Round(r, den))

\* hexRound without its first branch: q is never recomputed
hexRound_NeverResetsQ(q, r, den, es) ==
  LET s == -q - r + es
      rq == Round(q, den)
      rr == Round(r, den)
      rs == Round(s, den)
      qDiff == abs(rq * den - q)
      rDiff == abs(rr * den - r)
      sDiff == abs(rs * den - s)
  IN  IF rDiff > sDiff THEN HexCoord(rq, -rq - rs)
      ELSE HexCoord(rq, rr)

\* hexRound(q/den, r/den); es is the rounding error of s := -q - r
hexRound(q, r, den, es) ==
  LET s == -q - r + es
      rq == Round(q, den)
      rr == Round(r, den)
      rs == Round(s, den)
      qDiff == abs(rq * den - q)
      rDiff == abs(rr * den - r)
      sDiff == abs(rs * den - s)
  IN  IF qDiff > rDiff /\ qDiff > sDiff THEN HexCoord(-rr - rs, rr)
      ELSE IF rDiff > sDiff THEN HexCoord(rq, -rq - rs)
      ELSE HexCoord(rq, rr)

\* lerp(a, b, i/n) = a*(1-t) + b*t as a numerator over n
lerp(a, b, i, n) == a * (n - i) + b * i

\* the cells results[i] can be: hexRound of the interpolated point under
\* every rounding error of q, r and s
HexLineCell(a, b, i, n) ==
  {hexRound(lerp(a.Q, b.Q, i, n) * Ulps + eq, lerp(a.R, b.R, i, n) * Ulps + er,
            n * Ulps, es) : eq \in Noise, er \in Noise, es \in Noise}

\* the loop of HexLine from i on: every list it can fill in
RECURSIVE HexLineLoop(_, _, _, _)
HexLineLoop(a, b, i, n) ==
  IF i > n THEN {<<>>}
  ELSE {<<c>> \o rest : c \in HexLineCell(a, b, i, n),
                        rest \in HexLineLoop(a, b, i + 1, n)}

\* the lists HexLine(a, b) can return
HexLine(a, b) ==
  LET n == Distance(a, b)
  IN  IF n = 0 THEN {<<a>>} ELSE HexLineLoop(a, b, 0, n)

(* ----------------------- hex.go: HexLayout, pixels --------------------- *)

\* A float32 of a pixel computation is the exact number (a + b*sqrt(3))/d with
\* d > 0 and a, b, d without a common factor: layouts, radii and points are
\* taken with magnitudes float32 holds with room to spare, and the rounding
\* error of the arithmetic enters where a value is rounded to a cell.
RECURSIVE GCD(_, _)
GCD(m, n) == IF n = 0 THEN m ELSE GCD(n, m % n)

Num(a, b, d) ==
  LET g == GCD(GCD(abs(a), abs(b)), abs(d))
      k == IF d < 0 THEN -g ELSE g
  IN  [a |-> a \div k, b |-> b \div k, d |-> d \div k]

Whole(n) == Num(n, 0, 1)

Ratio(n, d) == Num(n, 0, d)

sqrt3 == Num(0, 1, 1)

\* x + y over the least common denominator
Plus(x, y) ==
  LET g == GCD(x.d, y.d)
      kx == y.d \div g
      ky == x.d \div g
  IN  Num(x.a * kx + y.a * ky, x.b * kx + y.b * ky, x.d * kx)

Minus(x, y) == Plus(x, Num(-y.a, -y.b, y.d))

Times(x, y) ==
  Num(x.a * y.a + 3 * x.b * y.b, x.a * y.b + x.b * y.a, x.d * y.d)

\* x / y for y # 0: 1/y is d*(a - b*sqrt(3)) / (a^2 - 3*b^2)
Over(x, y) ==
  Times(x, Num(y.a * y.d, -(y.b * y.d), y.a * y.a - 3 * y.b * y.b))

\* -1, 0 or 1 as x is negative, zero or positive; where a and b*sqrt(3)
\* pull apart, 7/4 > sqrt(3) > 5/3 decides before the squares do
Sign(x) ==
  LET sa == IF x.a > 0 THEN 1 ELSE IF x.a < 0 THEN -1 ELSE 0
      sb == IF x.b > 0 THEN 1 ELSE IF x.b < 0 THEN -1 ELSE 0
  IN  IF sb = 0 THEN sa
      ELSE IF sa = 0 \/ sa = sb THEN sb
      ELSE IF 4 * abs(x.a) >= 7 * abs(x.b) THEN sa
      ELSE IF 3 * abs(x.a) <= 5 * abs(x.b) THEN sb
      ELSE IF x.a * x.a > 3 * x.b * x.b THEN sa
      ELSE sb

Less(x, y) == Sign(Minus(x, y)) < 0

AtMost(x, y) == Sign(Minus(x, y)) <= 0

Vec2(x, y) == [X |-> x, Y |-> y]

\* float32(n) of an int n: 24 bits of mantissa hold every n up to 2^24 and
\* every second one from there to 2^25, halves going to the even mantissa
MaxExactFloat32 == 16777216

float32(n) ==
  IF abs(n) <= MaxExactFloat32 \/ n % 2 = 0 THEN n
  ELSE IF (n + 1) % 4 = 0 THEN n + 1
  ELSE n - 1

HexLayout(size, origin) == [Size |-> size, Origin |-> origin]

NewHexLayout(size, origin) == HexLayout(size, origin)

\* ToPixel with the column step of a whole row for every row
ToPixel_RowShiftsWholeColumn(l, h) ==
  LET x == Times(l.Size.X,
                 Plus(Times(sqrt3, Whole(float32(h.Q))),
                      Times(sqrt3, Whole(float32(h.R)))))
      y == Times(l.Size.Y, Times(Ratio(3, 2), Whole(float32(h.R))))
  IN  Vec2(Plus(x, l.Origin.X), Plus(y, l.Origin.Y))

ToPixel(l, h) ==
  LET x == Times(l.Size.X,
                 Plus(Times(sqrt3, Whole(float32(h.Q))),
                      Times(Over(sqrt3, Whole(2)), Whole(float32(h.R)))))
      y == Times(l.Size.Y, Times(Ratio(3, 2), Whole(float32(h.R))))
  IN  Vec2(Plus(x, l.Origin.X), Plus(y, l.Origin.Y))

\* the fractional coordinates FromPixel hands to hexRound
FromPixelFractional(l, p) ==
  LET px == Over(Minus(p.X, l.Origin.X), l.Size.X)
      py == Over(Minus(p.Y, l.Origin.Y), l.Size.Y)
  IN  [q |-> Minus(Times(Over(sqrt3, Whole(3)), px), Times(Ratio(1, 3), py)),
       r |-> Times(Ratio(2, 3), py)]

\* the rounding errors of q, of r and of hexRound's s, in Ulps
Errors == {<<eq, er, es>> : eq \in -1..1, er \in -1..1, es \in -1..1}

\* hexRound(float64(q), float64(r)) of rational q and r that carry the
\* rounding errors err
hexRoundFractional(f, err) ==
  hexRound(f.q.a * f.r.d * Ulps + err[1], f.r.a * f.q.d * Ulps + err[2],
           f.q.d * f.r.d * Ulps, err[3])

\* FromPixel of a point whose fractional coordinates are rational, under
\* the rounding errors err
FromPixel(l, p, err) == hexRoundFractional(FromPixelFractional(l, p), err)

(* --------------------------- hexgrid.go: HexGrid ----------------------- *)

\* the zero value of the payload type (T = int)
Zero == 0

\* A Go map is a reference: a HexGrid value is [radius, data] with data the
\* reference of its map, and heap[ref] is the content of that map.
Nil == 0

Refs == 1..3

EmptyMap == [c \in {} |-> Zero]

\* a Go map read: the zero value for a missing key
MapGet(m, c) == IF c \in DOMAIN m THEN m[c] ELSE Zero

MapPut(m, c, v) == [k \in (DOMAIN m) \cup {c} |-> IF k = c THEN v ELSE m[k]]

MapDelete(m, c) == [k \in (DOMAIN m) \ {c} |-> m[k]]

\* NewHexGrid that keeps a negative radius
NewHexGrid_NoClamp(h, r, ref) ==
  [heap |-> [h EXCEPT ![ref] = EmptyMap], g |-> [radius |-> r, data |-> ref]]

\* make(map[HexCoord]T) into the fresh reference ref
NewHexGrid(h, r, ref) ==
  [heap |-> [h EXCEPT ![ref] = EmptyMap],
   g |-> [radius |-> IF r < 0 THEN 0 ELSE r, data |-> ref]]

Radius(g) == g.radius

Size(g) == 3 * g.radius * g.radius + 3 * g.radius + 1

IsValid(g, coord) == Length(coord) <= g.radius

Get(h, g, coord) == IF ~IsValid(g, coord) THEN Zero ELSE MapGet(h[g.data], coord)

GetOk(h, g, coord) ==
  IF ~IsValid(g, coord) THEN [val |-> Zero, ok |-> FALSE]
  ELSE [val |-> MapGet(h[g.data], coord), ok |-> coord \in DOMAIN h[g.data]]

\* Set without its IsValid guard
Set_NoBoundsCheck(h, g, coord, value) ==
  [heap |-> [h EXCEPT ![g.data] = MapPut(h[g.data], coord, value)], ok |-> TRUE]

\* Delete that reports success and removes nothing
Delete_KeepsEntry(h, g, coord) ==
  IF ~IsValid(g, coord) THEN [heap |-> h, ok |-> FALSE]
  ELSE [heap |-> h, ok |-> TRUE]

\* Set, Delete: the heap after the call and the returned flag
Set(h, g, coord, value) ==
  IF ~IsValid(g, coord) THEN [heap |-> h, ok |-> FALSE]
  ELSE [heap |-> [h EXCEPT ![g.data] = MapPut(h[g.data], coord, value)],
        ok |-> TRUE]

Delete(h, g, coord) ==
  IF ~IsValid(g, coord) THEN [heap |-> h, ok |-> FALSE]
  ELSE [heap |-> [h EXCEPT ![g.data] = MapDelete(h[g.data], coord)],
        ok |-> TRUE]

\* g.data = make(map[HexCoord]T): a fresh map, the old one is left as it was
Clear(h, g, ref) ==
  [heap |-> [h EXCEPT ![ref] = EmptyMap], g |-> [g EXCEPT !.data = ref]]

Count(h, g) == Cardinality(DOMAIN h[g.data])

All(g) == HexSpiral(Origin, g.radius)

\* the loop of Fill over All()
RECURSIVE FillLoop(_, _, _, _)
FillLoop(m, cells, i, value) ==
  IF i > Len(cells) THEN m
  ELSE FillLoop(MapPut(m, cells[i], value), cells, i + 1, value)

\* Fill that walks only the outermost ring
Fill_OuterRingOnly(h, g, value) ==
  [h EXCEPT ![g.data] = FillLoop(h[g.data], HexRing(Origin, g.radius), 1, value)]

Fill(h, g, value) == [h EXCEPT ![g.data] = FillLoop(h[g.data], All(g), 1, value)]

\* nil and the empty slice are both the empty sequence
Ring(g, distance) ==
  IF distance > g.radius THEN <<>> ELSE HexRing(Origin, distance)

\* one invocation of the callback fn(coord, value)
FnCall(coord, value) == [coord |-> coord, value |-> value]

\* the invocations of fn made by a loop over cells, in order; g.data[coord]
\* is a plain map read
FnCalls(m, cells) == [i \in 1..Len(cells) |-> FnCall(cells[i], MapGet(m, cells[i]))]

ForEach(h, g) == FnCalls(h[g.data], All(g))

\* ForEachSet that walks All() like ForEach
ForEachSet_WalksAll(h, g) ==
  LET calls == FnCalls(h[g.data], All(g))
  IN  SetToBag({calls[i] : i \in 1..Len(calls)})

\* the range loop of ForEachSet over the entries of g.data
RECURSIVE ForEachSetLoop(_, _)
ForEachSetLoop(m, keys) ==
  IF keys = {} THEN EmptyBag
  ELSE LET k == CHOOSE x \in keys : TRUE
       IN  SetToBag({FnCall(k, m[k])}) (+) ForEachSetLoop(m, keys \ {k})

\* Go leaves the order of a range over a map unspecified: the invocations of
\* fn are kept as a bag, which is what every order has in common
ForEachSet(h, g) == ForEachSetLoop(h[g.data], DOMAIN h[g.data])

\* the returned flag and the invocations of fn
ForEachRing(h, g, distance) ==
  IF distance > g.radius THEN [ok |-> FALSE, calls |-> <<>>]
  ELSE [ok |-> TRUE, calls |-> FnCalls(h[g.data], Ring(g, distance))]

\* Neighbors that answers nothing for a coordinate outside the grid
Neighbors_RequiresValid(g, coord) ==
  IF ~IsValid(g, coord) THEN <<>>
  ELSE SelectSeq(CoordNeighbors(coord), LAMBDA n : IsValid(g, n))

\* HexGrid.Neighbors: the neighbours of coord that are valid, in direction order
Neighbors(g, coord) == SelectSeq(CoordNeighbors(coord), LAMBDA n : IsValid(g, n))

\* map reads that add the keys they miss, with the zero value
AfterRead_AddsMissingKeys(h, g, coords) ==
  [h EXCEPT ![g.data] = [k \in (DOMAIN @) \cup coords |-> MapGet(@, k)]]

\* the heap after a query has read g.data[coord] for the coordinates
\* coords: the index expression of a Go map adds no key
AfterRead(h, g, coords) == h

\* the elements of the slice s
Elements(s) == {s[i] : i \in 1..Len(s)}

\* the copy loop of Clone over the entries of g.data
RECURSIVE CloneLoop(_, _, _)
CloneLoop(src, keys, dst) ==
  IF keys = {} THEN dst
  ELSE LET k == CHOOSE x \in keys : TRUE
       IN  CloneLoop(src, keys \ {k}, MapPut(dst, k, src[k]))

\* Clone that copies the struct and so shares the map of g
Clone_SharesMap(h, g, ref) ==
  [heap |-> h, g |-> [radius |-> g.radius, data |-> g.data]]

\* a new HexGrid whose map is the fresh reference ref
Clone(h, g, ref) ==
  [heap |-> [h EXCEPT ![ref] = CloneLoop(h[g.data], DOMAIN h[g.data], EmptyMap)],
   g |-> [radius |-> g.radius, data |-> ref]]

(* ------------------ hexrender.go, hexinput.go: edges ------------------- *)

HexEdge(coord, dir) == [Coord |-> coord, Dir |-> dir]

\* normalizeEdge that flips the direction and stays on the same cell
normalizeEdge_KeepsCoord(coord, dir) ==
  IF dir <= HexDirNW THEN HexEdge(coord, dir)
  ELSE HexEdge(coord, (dir + 3) % 6)

normalizeEdge(coord, dir) ==
  IF dir <= HexDirNW THEN HexEdge(coord, dir)
  ELSE HexEdge(Neighbor(coord, dir), (dir + 3) % 6)

\* The edge lists are built in the order the loops append: the edges of the
\* cell at position i of All(), direction by direction, then those of the
\* cells after it.

\* the direction loop of GridEdges running to SE
RECURSIVE GridEdgesDirs_AllSix(_, _)
GridEdgesDirs_AllSix(coord, dir) ==
  IF dir > HexDirSE THEN <<>>
  ELSE <<HexEdge(coord, dir)>> \o GridEdgesDirs_AllSix(coord, dir + 1)

\* GridEdges: the loop over the directions E..NW inside the ForEach callback
RECURSIVE GridEdgesDirs(_, _)
GridEdgesDirs(coord, dir) ==
  IF dir > HexDirNW THEN <<>>
  ELSE <<HexEdge(coord, dir)>> \o GridEdgesDirs(coord, dir + 1)

\* GridEdges: grid.ForEach, which walks All()
RECURSIVE GridEdgesCells(_, _)
GridEdgesCells(cells, i) ==
  IF i > Len(cells) THEN <<>>
  ELSE GridEdgesDirs(cells[i], HexDirE) \o GridEdgesCells(cells, i + 1)

GridEdges(g) == GridEdgesCells(All(g), 1)

\* the direction loop of InteriorEdges running to SE
RECURSIVE InteriorEdgesDirs_AllSix(_, _, _)
InteriorEdgesDirs_AllSix(g, coord, dir) ==
  IF dir > HexDirSE THEN <<>>
  ELSE (IF IsValid(g, Neighbor(coord, dir)) THEN <<HexEdge(coord, dir)>> ELSE <<>>)
         \o InteriorEdgesDirs_AllSix(g, coord, dir + 1)

\* InteriorEdges: the loop over the directions E..NW
RECURSIVE InteriorEdgesDirs(_, _, _)
InteriorEdgesDirs(g, coord, dir) ==
  IF dir > HexDirNW THEN <<>>
  ELSE (IF IsValid(g, Neighbor(coord, dir)) THEN <<HexEdge(coord, dir)>> ELSE <<>>)
         \o InteriorEdgesDirs(g, coord, dir + 1)

RECURSIVE InteriorEdgesCells(_, _, _)
InteriorEdgesCells(g, cells, i) ==
  IF i > Len(cells) THEN <<>>
  ELSE InteriorEdgesDirs(g, cells[i], HexDirE) \o InteriorEdgesCells(g, cells, i + 1)

InteriorEdges(g) == InteriorEdgesCells(g, All(g), 1)

\* the direction loop of BoundaryEdges stopping at NW
RECURSIVE BoundaryEdgesDirs_Canonical(_, _, _)
BoundaryEdgesDirs_Canonical(g, coord, dir) ==
  IF dir > HexDirNW THEN <<>>
  ELSE (IF ~IsValid(g, Neighbor(coord, dir)) THEN <<HexEdge(coord, dir)>> ELSE <<>>)
         \o BoundaryEdgesDirs_Canonical(g, coord, dir + 1)

\* BoundaryEdges: the loop over all six directions
RECURSIVE BoundaryEdgesDirs(_, _, _)
BoundaryEdgesDirs(g, coord, dir) ==
  IF dir > HexDirSE THEN <<>>
  ELSE (IF ~IsValid(g, Neighbor(coord, dir)) THEN <<HexEdge(coord, dir)>> ELSE <<>>)
         \o BoundaryEdgesDirs(g, coord, dir + 1)

RECURSIVE BoundaryEdgesCells(_, _, _)
BoundaryEdgesCells(g, cells, i) ==
  IF i > Len(cells) THEN <<>>
  ELSE BoundaryEdgesDirs(g, cells[i], HexDirE) \o BoundaryEdgesCells(g, cells, i + 1)

BoundaryEdges(g) == BoundaryEdgesCells(g, All(g), 1)

(* ------------------- hexrender.go: vertices of a cell ------------------ *)

\* float32(math.Cos(angle)) and float32(math.Sin(angle)) of the angle
\* math.Pi/2 - i*math.Pi/3 of vertex i
Cos(i) ==
  CASE i \in {0, 3} -> Whole(0)
    [] i \in {1, 2} -> Over(sqrt3, Whole(2))
    [] i \in {4, 5} -> Over(sqrt3, Whole(-2))

Sin(i) ==
  CASE i = 0 -> Whole(1)
    [] i \in {1, 5} -> Ratio(1, 2)
    [] i \in {2, 4} -> Ratio(-1, 2)
    [] i = 3 -> Whole(-1)

\* the six vertices around center, indexed from 0 as in the code
HexVerticesAround(center, radius) ==
  [i \in 0..5 |-> Vec2(Plus(center.X, Times(radius, Cos(i))),
                       Minus(center.Y, Times(radius, Sin(i))))]

\* the array [6]Vec2
HexVertices(layout, coord, radius) ==
  HexVerticesAround(ToPixel(layout, coord), radius)

Vec3(x, y, z) == [X |-> x, Y |-> y, Z |-> z]

HexVertices3D(layout, coord, radius) ==
  LET v2 == HexVertices(layout, coord, radius)
  IN  [i \in 0..5 |-> Vec3(v2[i].X, Whole(0), v2[i].Y)]

edgeVertexMap ==
  [dir \in HexDirE..HexDirSE |->
     CASE dir = HexDirE -> <<1, 2>>
       [] dir = HexDirNE -> <<0, 1>>
       [] dir = HexDirNW -> <<5, 0>>
       [] dir = HexDirW -> <<4, 5>>
       [] dir = HexDirSW -> <<3, 4>>
       [] dir = HexDirSE -> <<2, 3>>]

\* the pair (v1, v2)
HexEdgeVertices(vertices, dir) ==
  LET idx == edgeVertexMap[dir]
  IN  <<vertices[idx[1]], vertices[idx[2]]>>

(* ----------------------- hexinput.go: HexHitTester --------------------- *)

HexHitNone == 0
HexHitCell == 1
HexHitEdge == 2

\* float32(math.Sqrt(x)) is kept as the number x it is the root of: two
\* roots compare as their squares do
sqrt(x) == [sq |-> x]

\* sqrt(distX*distX + distY*distY)
Hypot(distX, distY) == sqrt(Plus(Times(distX, distX), Times(distY, distY)))

\* t clamped to [0, 1]
Clamp(t) ==
  IF Less(t, Whole(0)) THEN Whole(0)
  ELSE IF Less(Whole(1), t) THEN Whole(1)
  ELSE t

\* the pair (distance, t) for the closest point (x1 + t*dx, y1 + t*dy)
ClosestPoint(px, py, x1, y1, dx, dy, t) ==
  [distance |-> Hypot(Minus(px, Plus(x1, Times(t, dx))),
                      Minus(py, Plus(y1, Times(t, dy)))),
   t |-> t]

\* the projection of the point onto the line, as a part of the segment
Project(px, py, x1, y1, dx, dy) ==
  Over(Plus(Times(Minus(px, x1), dx), Times(Minus(py, y1), dy)),
       Plus(Times(dx, dx), Times(dy, dy)))

\* PointToSegmentDistance with t left as the projection gives it
SegmentDistance_NoClamp(px, py, x1, y1, dx, dy) ==
  IF dx = Whole(0) /\ dy = Whole(0)
  THEN [distance |-> Hypot(Minus(px, x1), Minus(py, y1)), t |-> Whole(0)]
  ELSE ClosestPoint(px, py, x1, y1, dx, dy, Project(px, py, x1, y1, dx, dy))

\* PointToSegmentDistance for the segment from (x1, y1) to (x1 + dx, y1 + dy)
SegmentDistance(px, py, x1, y1, dx, dy) ==
  IF dx = Whole(0) /\ dy = Whole(0)
  THEN [distance |-> Hypot(Minus(px, x1), Minus(py, y1)), t |-> Whole(0)]
  ELSE ClosestPoint(px, py, x1, y1, dx, dy,
                    Clamp(Project(px, py, x1, y1, dx, dy)))

\* the pair (distance, t)
PointToSegmentDistance(px, py, x1, y1, x2, y2) ==
  SegmentDistance(px, py, x1, y1, Minus(x2, x1), Minus(y2, y1))

HexHitResult(type, cell, edge, distance) ==
  [Type |-> type, Cell |-> cell, Edge |-> edge, Distance |-> distance]

HexHitTester(layout, hexRadius, edgeThreshold) ==
  [Layout |-> layout, HexRadius |-> hexRadius, EdgeThreshold |-> edgeThreshold]

NewHexHitTester(layout, hexRadius, edgeThreshold) ==
  HexHitTester(layout, hexRadius, edgeThreshold)

\* float32(math.MaxFloat32), larger than every distance
MaxFloat32 == [sq |-> [a |-> 1, b |-> 0, d |-> 0]]

\* dist < minDist
Closer(dist, minDist) == minDist = MaxFloat32 \/ Less(dist.sq, minDist.sq)

\* minDist <= threshold, for the root minDist and the number threshold
Within(minDist, threshold) ==
  Sign(threshold) >= 0 /\ AtMost(minDist.sq, Times(threshold, threshold))

\* dist of the body of the loops: the distance from (px, py) to the edge
\* from v[1] to v[2]
EdgeDist(px, py, v) ==
  PointToSegmentDistance(px, py, v[1].X, v[1].Y, v[2].X, v[2].Y).distance

\* minDist and nearestDir before the loops
NoEdgeYet == [minDist |-> MaxFloat32, nearestDir |-> HexDirE]

\* the body of the loop of HitTest: near = (minDist, nearestDir) after the
\* edge dir, which is at the distance dist
HitTestBody(near, dir, dist) ==
  IF Closer(dist, near.minDist) THEN [minDist |-> dist, nearestDir |-> dir]
  ELSE near

\* the loop of HitTest from dir on: (minDist, nearestDir) after it
RECURSIVE HitTestLoop(_, _, _, _, _)
HitTestLoop(px, py, vertices, dir, near) ==
  IF dir > HexDirSE THEN near
  ELSE HitTestLoop(px, py, vertices, dir + 1,
                   HitTestBody(near, dir,
                               EdgeDist(px, py, HexEdgeVertices(vertices, dir))))

\* the result of HitTest for the nearest edge near of the cell, where a
\* distance equal to the threshold makes a cell hit
HitTestResult_StrictThreshold(h, cell, near) ==
  IF Within(near.minDist, h.EdgeThreshold)
       /\ near.minDist # sqrt(Times(h.EdgeThreshold, h.EdgeThreshold))
  THEN HexHitResult(HexHitEdge, cell, normalizeEdge(cell, near.nearestDir),
                    near.minDist)
  ELSE HexHitResult(HexHitCell, cell, normalizeEdge(cell, near.nearestDir),
                    near.minDist)

\* the result of HitTest for the nearest edge near of the cell
HitTestResult(h, cell, near) ==
  IF Within(near.minDist, h.EdgeThreshold)
  THEN HexHitResult(HexHitEdge, cell, normalizeEdge(cell, near.nearestDir),
                    near.minDist)
  ELSE HexHitResult(HexHitCell, cell, normalizeEdge(cell, near.nearestDir),
                    near.minDist)

\* HitTest of a point that FromPixel has resolved to cell
HitTestIn(h, px, py, cell) ==
  HitTestResult(h, cell,
                HitTestLoop(px, py, HexVertices(h.Layout, cell, h.HexRadius),
                            HexDirE, NoEdgeYet))

\* HitTest of the point (px, py) that FromPixel resolves under the
\* rounding errors err
HitTest(h, px, py, err) ==
  HitTestIn(h, px, py, FromPixel(h.Layout, Vec2(px, py), err))

HitTestCell(h, px, py, err) == FromPixel(h.Layout, Vec2(px, py), err)

\* the body of the loop of HitTestEdge
HitTestEdgeBody(near, dir, dist) ==
  IF Closer(dist, near.minDist) THEN [minDist |-> dist, nearestDir |-> dir]
  ELSE near

\* the loop of HitTestEdge that lets the last of equally near edges win
RECURSIVE HitTestEdgeLoop_LastWins(_, _, _, _, _)
HitTestEdgeLoop_LastWins(px, py, vertices, dir, near) ==
  IF dir > HexDirSE THEN near
  ELSE LET dist == EdgeDist(px, py, HexEdgeVertices(vertices, dir))
       IN  IF Closer(dist, near.minDist) \/ dist = near.minDist
           THEN HitTestEdgeLoop_LastWins(px, py, vertices, dir + 1,
                                         [minDist |-> dist, nearestDir |-> dir])
           ELSE HitTestEdgeLoop_LastWins(px, py, vertices, dir + 1, near)

\* the loop of HitTestEdge from dir on
RECURSIVE HitTestEdgeLoop(_, _, _, _, _)
HitTestEdgeLoop(px, py, vertices, dir, near) ==
  IF dir > HexDirSE THEN near
  ELSE HitTestEdgeLoop(px, py, vertices, dir + 1,
                       HitTestEdgeBody(near, dir,
                                       EdgeDist(px, py,
                                                HexEdgeVertices(vertices, dir))))

\* the pair (edge, distance) for the nearest edge near of the cell
HitTestEdgeResult(cell, near) ==
  [edge |-> normalizeEdge(cell, near.nearestDir), distance |-> near.minDist]

\* HitTestEdge of a point that FromPixel has resolved to cell
HitTestEdgeIn(h, px, py, cell) ==
  HitTestEdgeResult(cell,
                    HitTestEdgeLoop(px, py,
                                    HexVertices(h.Layout, cell, h.HexRadius),
                                    HexDirE, NoEdgeYet))

\* the pair (edge, distance)
HitTestEdge(h, px, py, err) ==
  HitTestEdgeIn(h, px, py, FromPixel(h.Layout, Vec2(px, py), err))

\* the value HexHitResult{Type: HexHitNone}
NoHit == HexHitResult(HexHitNone, Origin, HexEdge(Origin, HexDirE), sqrt(Whole(0)))

\* the check that takes the ring at gridRadius for outside
WithinGrid_RingIsOutside(result, gridRadius) ==
  IF Length(result.Cell) >= gridRadius THEN NoHit ELSE result

\* the check of HitTestInGrid on the result of HitTest
WithinGrid(result, gridRadius) ==
  IF Length(result.Cell) > gridRadius THEN NoHit ELSE result

HitTestInGrid(h, px, py, gridRadius, err) ==
  WithinGrid(HitTest(h, px, py, err), gridRadius)

\* the pair (v1, v2)
EdgeVertices(h, edge) ==
  HexEdgeVertices(HexVertices(h.Layout, edge.Coord, h.HexRadius), edge.Dir)

\* the point half way from v[1] to v[2]
Midpoint(v) ==
  Vec2(Over(Plus(v[1].X, v[2].X), Whole(2)), Over(Plus(v[1].Y, v[2].Y), Whole(2)))

EdgeMidpoint(h, edge) == Midpoint(EdgeVertices(h, edge))

CellCenter(h, coord) == ToPixel(h.Layout, coord)

(* ------------------ hexrender.go: PrepareGridRenderData ---------------- *)

\* the fields of HexRenderConfig that PrepareGridRenderData reads
HexRenderConfig(layout, hexRadius) == [Layout |-> layout, HexRadius |-> hexRadius]

DefaultHexRenderConfig(hexRadius) ==
  HexRenderConfig(NewHexLayout(Vec2(hexRadius, hexRadius), Vec2(Whole(0), Whole(0))),
                  hexRadius)

HexGridRenderData(cells, vertices, allEdges, boundaryEdges, interiorEdges) ==
  [Cells |-> cells, Vertices |-> vertices, AllEdges |-> allEdges,
   BoundaryEdges |-> boundaryEdges, InteriorEdges |-> interiorEdges]

\* PrepareGridRenderData that leaves out the cells nothing is stored in
PrepareGridRenderData_StoredCellsOnly(h, g, config) ==
  LET cells == SelectSeq(All(g), LAMBDA c : c \in DOMAIN h[g.data])
      vertices == [i \in 1..Len(cells) |->
                     HexVertices3D(config.Layout, cells[i], config.HexRadius)]
  IN  [heap |-> h,
       data |-> HexGridRenderData(cells, vertices, GridEdges(g), BoundaryEdges(g),
                                  InteriorEdges(g))]

\* the heap after the call, which writes to no map, and the data returned
PrepareGridRenderData(h, g, config) ==
  LET cells == All(g)
      vertices == [i \in 1..Len(cells) |->
                     HexVertices3D(config.Layout, cells[i], config.HexRadius)]
  IN  [heap |-> h,
       data |-> HexGridRenderData(cells, vertices, GridEdges(g), BoundaryEdges(g),
                                  InteriorEdges(g))]

(* ----------------------- animation.go: AnimationManager --------------- *)

AnimationTypeRotation == 0

EaseLinear == 0
EaseInOut == 1
EaseIn == 2
EaseOut == 3

EaseType == EaseLinear..EaseOut

\* A float32 of this file is a fraction [num, den]; den = 0 is NaN.
Frac(n, d) == [num |-> n, den |-> d]

NaN == Frac(0, 0)

\* the pointers to Animation objects
AnimRefs == 1..MaxAnims

\* mem[p] before the object p is allocated
NoAnimation == [Type |-> -1]

\* &Animation{...} as SimpleRotation builds it, with the X component of the
\* Vec3 values: the animation runs from start to end
Animation(start, end, duration, ease) ==
  [Type |-> AnimationTypeRotation, StartValue |-> start, EndValue |-> end,
   CurrentValue |-> Frac(start, 1), Duration |-> duration, Timer |-> 0,
   Completed |-> FALSE, EaseType |-> ease]

NewAnimationManager == [Animations |-> <<>>]

\* applyEasing(progress, easeType) for progress = n/d in [0, 1] or NaN
applyEasing(progress, easeType) ==
  LET n == progress.num
      d == progress.den
  IN  IF d = 0 THEN NaN
      ELSE CASE easeType = EaseInOut ->
                  IF 2 * n < d THEN Frac(2 * n * n, d * d)
                  ELSE Frac(d * d - 2 * (d - n) * (d - n), d * d)
             [] easeType = EaseIn -> Frac(n * n, d * d)
             [] easeType = EaseOut -> Frac(d * d - (d - n) * (d - n), d * d)
             [] OTHER -> progress

\* progress := anim.Timer / anim.Duration; progress >= 1.0. A zero Duration
\* gives +Inf for a positive Timer and NaN, which compares false, for a zero
\* one.
ProgressDone(timer, duration) ==
  IF duration > 0 THEN timer >= duration
  ELSE IF duration = 0 THEN timer > 0
  ELSE timer <= duration

\* the body of the first loop of Update for an animation not completed
Advance(anim, deltaTime) ==
  LET timer == anim.Timer + deltaTime
      done == ProgressDone(timer, anim.Duration)
      progress == IF done THEN Frac(1, 1) ELSE Frac(timer, anim.Duration)
      eased == applyEasing(progress, anim.EaseType)
      value == IF eased.den = 0 THEN NaN
               ELSE Frac(anim.StartValue * eased.den
                           + (anim.EndValue - anim.StartValue) * eased.num,
                         eased.den)
  IN  [anim EXCEPT !.Timer = timer, !.Completed = done, !.CurrentValue = value]

\* the first loop of Update: the objects after entries i.. of list are done
\* (m2, the objects after entry i, is bound to a value so that it is
\* computed once)
RECURSIVE UpdateLoop(_, _, _, _)
UpdateLoop(m, list, i, deltaTime) ==
  IF i > Len(list) THEN m
  ELSE IF m[list[i]].Completed THEN UpdateLoop(m, list, i + 1, deltaTime)
  ELSE CHOOSE res \in
         {UpdateLoop(m2, list, i + 1, deltaTime) :
            m2 \in {[m EXCEPT ![list[i]] = Advance(m[list[i]], deltaTime)]}} :
         TRUE

\* the removal loop of Update stepping on after a removal
RECURSIVE RemoveLoop_AlwaysSteps(_, _, _)
RemoveLoop_AlwaysSteps(m, list, i) ==
  IF i > Len(list) THEN list
  ELSE IF m[list[i]].Completed
       THEN CHOOSE res \in
              {RemoveLoop_AlwaysSteps(m, rest, i + 1) :
                 rest \in {SubSeq([list EXCEPT ![i] = list[Len(list)]],
                                  1, Len(list) - 1)}} :
              TRUE
       ELSE RemoveLoop_AlwaysSteps(m, list, i + 1)

\* the removal loop of Update: a completed entry is overwritten by the last
\* one, the list shortened, and position i looked at again (rest, the
\* shortened list, is bound to a value so that it is computed once)
RECURSIVE RemoveLoop(_, _, _)
RemoveLoop(m, list, i) ==
  IF i > Len(list) THEN list
  ELSE IF m[list[i]].Completed
       THEN CHOOSE res \in
              {RemoveLoop(m, rest, i) :
                 rest \in {SubSeq([list EXCEPT ![i] = list[Len(list)]],
                                  1, Len(list) - 1)}} :
              TRUE
       ELSE RemoveLoop(m, list, i + 1)

\* Update: the objects and the manager after the call
Update(a, m, deltaTime) ==
  CHOOSE res \in
    {[mem |-> m2, am |-> [a EXCEPT !.Animations = RemoveLoop(m2, a.Animations, 1)]] :
       m2 \in {UpdateLoop(m, a.Animations, 1, deltaTime)}} :
    TRUE

AddAnimation(a, anim) == [a EXCEPT !.Animations = Append(a.Animations, anim)]

(* ------------------------------- state --------------------------------- *)

VARIABLES
  heap,    \* the content of every map: heap[ref]
  grid,    \* the HexGrid under test: [radius, data]
  clone,   \* the grid returned by grid.Clone(), or NoGrid before the call
  nops,    \* number of Set, Delete, Fill and Clear calls made so far
  op,      \* the last call: [name, target, coord, other, dir, value]
  ret,     \* what the last call returned: [ok, val, edge, list, bag]
  pre,     \* heap, grid and clone as they were when the last call was made
  last,    \* per coordinate, the most recent mutation of grid that touched it
  arg,     \* the radius NewHexGrid was called with
  am,      \* the AnimationManager: [Animations], a list of pointers
  mem,     \* the Animation each pointer refers to
  tester,  \* the shared HexHitTester: [Layout, HexRadius, EdgeThreshold]
  calls    \* per goroutine, the call it is making on tester

vars == <<heap, grid, clone, nops, op, ret, pre, last, arg, am, mem, tester, calls>>

\* the state of the grids
gridVars == <<heap, grid, clone, nops, pre, last, arg>>

\* the state outside the grids
otherVars == <<am, mem, tester, calls>>

NoGrid == [radius |-> -1, data |-> Nil]

\* no tester is built and no goroutine runs outside SpecShared: the zero
\* value of HexHitTester
NoTester ==
  HexHitTester(HexLayout(Vec2(Whole(0), Whole(0)), Vec2(Whole(0), Whole(0))),
               Whole(0), Whole(0))

Goroutines == 1..2

Idle == [pc |-> "idle"]

EmptyHeap == [r \in Refs |-> EmptyMap]

\* the maps still referenced by a grid
Live(g, cl) == {g.data, cl.data} \ {Nil}

\* the reference make() returns: the lowest one that no grid holds
FreshRef == CHOOSE r \in Refs \ Live(grid, clone) :
              \A r2 \in Refs \ Live(grid, clone) : r <= r2

\* garbage collection: a map no grid references is gone
Collect(h, g, cl) == [r \in Refs |-> IF r \in Live(g, cl) THEN h[r] ELSE EmptyMap]

Range(n) == (0 - n)..n

\* the coordinates the calls of Spec are made with: every cell of the largest
\* grid, and the six axis coordinates one step beyond it
Coords == {c \in [Q : Range(MaxRadius + 1), R : Range(MaxRadius + 1)] :
             \/ Length(c) <= MaxRadius
             \/ Length(c) = MaxRadius + 1 /\ (c.Q = 0 \/ c.R = 0 \/ S(c) = 0)}

\* the coordinates the calls of SpecClone are made with: the E-W axis
CloneCoords == {c \in Coords : c.R = 0}

\* the coordinates of SpecEdges: one step beyond the largest grid
EdgeCoords == {c \in [Q : Range(MaxEdgeRadius + 1), R : Range(MaxEdgeRadius + 1)] :
                 Length(c) <= MaxEdgeRadius + 1}

\* the coordinates Neighbors is asked about in SpecIter: those of Spec and
\* the six axis coordinates two steps beyond the largest grid
IterCoords ==
  Coords \cup {Scale(hexDirectionVectors[d], MaxRadius + 2) : d \in HexDirection}

\* the distances and radii SpecIter passes: from -2 to one beyond the largest
IterRadii == -2..(MaxRadius + 1)

\* the coordinates of SpecHex
HexCoords == {c \in [Q : Range(MaxHexRadius), R : Range(MaxHexRadius)] :
                Length(c) <= MaxHexRadius}

\* the radii SpecHex passes to HexRing
HexRadii == -1..(MaxHexRadius + 1)

\* the payloads stored: the zero value and one other (the container never
\* inspects a payload)
Values == {Zero, 1}

Targets == {"grid", "clone"}

Target(t) == IF t = "grid" THEN grid ELSE clone

Call(name, t, c, d, v) ==
  [name |-> name, target |-> t, coord |-> c, other |-> Origin, dir |-> d,
   value |-> v]

\* a call of a function of two coordinates
Call2(name, a, b) ==
  [name |-> name, target |-> "grid", coord |-> a, other |-> b, dir |-> HexDirE,
   value |-> Zero]

\* a call of a function of fractional coordinates (q/den, r/den) whose
\* float arithmetic makes the rounding error err
FCall(name, q, r, den, err) ==
  [name |-> name, target |-> "grid", coord |-> Origin, other |-> Origin,
   dir |-> HexDirE, value |-> Zero, q |-> q, r |-> r, den |-> den, err |-> err]

\* a call of a method of the layout l with the cell c or the point p, whose
\* float arithmetic makes the rounding errors err
LCall(name, l, c, p, err) ==
  [name |-> name, target |-> "layout", coord |-> c, other |-> Origin,
   dir |-> HexDirE, value |-> Zero, layout |-> l, point |-> p, err |-> err]

\* a call of a function of the point p and the segment from a to b
SCall(name, p, a, b) ==
  [name |-> name, target |-> "grid", coord |-> Origin, other |-> Origin,
   dir |-> HexDirE, value |-> Zero, point |-> p, a |-> a, b |-> b]

\* a call of a method of the tester h with the point p, whose float
\* arithmetic makes the rounding errors err
TCall(name, h, p, gridRadius, err) ==
  [name |-> name, target |-> "tester", coord |-> Origin, other |-> Origin,
   dir |-> HexDirE, value |-> gridRadius, tester |-> h, point |-> p,
   err |-> err]

\* a call of a function of the grid and the render configuration config
RCall(name, config) ==
  [name |-> name, target |-> "grid", coord |-> Origin, other |-> Origin,
   dir |-> HexDirE, value |-> Zero, config |-> config]

NoRet ==
  [ok |-> FALSE, val |-> Zero, edge |-> HexEdge(Origin, HexDirE), list |-> <<>>,
   bag |-> EmptyBag, cell |-> Origin, distance |-> sqrt(Whole(0)),
   t |-> Whole(0), hit |-> NoHit,
   data |-> HexGridRenderData(<<>>, <<>>, <<>>, <<>>, <<>>)]

Snapshot == [heap |-> heap, grid |-> grid, clone |-> clone]

\* ghost values of last[c]
Untouched == [kind |-> "untouched", val |-> Zero]
Removed == [kind |-> "removed", val |-> Zero]
Stored(v) == [kind |-> "stored", val |-> v]

InitWith(radii) ==
  /\ \E r \in radii :
       LET res == NewHexGrid(EmptyHeap, r, 1)
       IN  heap = res.heap /\ grid = res.g /\ arg = r
  /\ clone = NoGrid
  /\ nops = 0
  /\ op = Call("NewHexGrid", "grid", Origin, HexDirE, Zero)
  /\ ret = NoRet
  /\ pre = [heap |-> EmptyHeap, grid |-> NoGrid, clone |-> NoGrid]
  /\ last = [c \in Coords |-> Untouched]
  /\ am = NewAnimationManager
  /\ mem = [p \in AnimRefs |-> NoAnimation]
  /\ tester = NoTester
  /\ calls = [g \in Goroutines |-> Idle]

Init == InitWith(-2..MaxRadius)

Exists(t) == t = "clone" => clone # NoGrid

SetCall(t, c, v) ==
  /\ Exists(t)
  /\ nops < MaxOps
  /\ LET res == Set(heap, Target(t), c, v)
     IN  /\ heap' = res.heap
         /\ ret' = [NoRet EXCEPT !.ok = res.ok]
  /\ nops' = nops + 1
  /\ op' = Call("Set", t, c, HexDirE, v)
  /\ pre' = Snapshot
  /\ last' = IF t = "grid" /\ Length(c) <= grid.radius
             THEN [last EXCEPT ![c] = Stored(v)] ELSE last
  /\ UNCHANGED <<grid, clone, arg, otherVars>>

DeleteCall(t, c) ==
  /\ Exists(t)
  /\ nops < MaxOps
  /\ LET res == Delete(heap, Target(t), c)
     IN  /\ heap' = res.heap
         /\ ret' = [NoRet EXCEPT !.ok = res.ok]
  /\ nops' = nops + 1
  /\ op' = Call("Delete", t, c, HexDirE, Zero)
  /\ pre' = Snapshot
  /\ last' = IF t = "grid" /\ Length(c) <= grid.radius
             THEN [last EXCEPT ![c] = Removed] ELSE last
  /\ UNCHANGED <<grid, clone, arg, otherVars>>

FillCall(t, v) ==
  /\ Exists(t)
  /\ nops < MaxOps
  /\ heap' = Fill(heap, Target(t), v)
  /\ ret' = NoRet
  /\ nops' = nops + 1
  /\ op' = Call("Fill", t, Origin, HexDirE, v)
  /\ pre' = Snapshot
  /\ last' = IF t = "grid"
             THEN [c \in Coords |-> IF Length(c) <= grid.radius
                                    THEN Stored(v) ELSE last[c]]
             ELSE last
  /\ UNCHANGED <<grid, clone, arg, otherVars>>

ClearCall(t) ==
  /\ Exists(t)
  /\ nops < MaxOps
  /\ LET res == Clear(heap, Target(t), FreshRef)
     IN  /\ grid' = IF t = "grid" THEN res.g ELSE grid
         /\ clone' = IF t = "clone" THEN res.g ELSE clone
         /\ heap' = Collect(res.heap, grid', clone')
  /\ ret' = NoRet
  /\ nops' = nops + 1
  /\ op' = Call("Clear", t, Origin, HexDirE, Zero)
  /\ pre' = Snapshot
  /\ last' = IF t = "grid"
             THEN [c \in Coords |-> IF Length(c) <= grid.radius
                                    THEN Removed ELSE last[c]]
             ELSE last
  /\ UNCHANGED <<arg, otherVars>>

\* clone := grid.Clone(), made once
CloneCall ==
  /\ clone = NoGrid
  /\ LET res == Clone(heap, grid, FreshRef)
     IN  /\ clone' = res.g
         /\ heap' = res.heap
  /\ op' = Call("Clone", "grid", Origin, HexDirE, Zero)
  /\ ret' = NoRet
  /\ pre' = Snapshot
  /\ UNCHANGED <<grid, nops, last, arg, otherVars>>

Next ==
  \/ \E c \in Coords, v \in Values : SetCall("grid", c, v)
  \/ \E c \in Coords : DeleteCall("grid", c)
  \/ \E v \in Values : FillCall("grid", v)
  \/ ClearCall("grid")

Spec == Init /\ [][Next]_vars

NextClone ==
  \/ \E t \in Targets, c \in CloneCoords, v \in Values : SetCall(t, c, v)
  \/ \E t \in Targets, c \in CloneCoords : DeleteCall(t, c)
  \/ \E t \in Targets, v \in Values : FillCall(t, v)
  \/ \E t \in Targets : ClearCall(t)
  \/ CloneCall

SpecClone == Init /\ [][NextClone]_vars

(* --------------------- SpecEdges: the pure functions ------------------- *)

\* a call that only reads
ReadOnly == UNCHANGED <<gridVars, otherVars>>

SizeCall ==
  /\ op' = Call("Size", "grid", Origin, HexDirE, Zero)
  /\ ret' = [NoRet EXCEPT !.val = Size(grid)]
  /\ ReadOnly

AllCall ==
  /\ op' = Call("All", "grid", Origin, HexDirE, Zero)
  /\ ret' = [NoRet EXCEPT !.list = All(grid)]
  /\ ReadOnly

normalizeEdgeCall(c, d) ==
  /\ op' = Call("normalizeEdge", "grid", c, d, Zero)
  /\ ret' = [NoRet EXCEPT !.edge = normalizeEdge(c, d)]
  /\ ReadOnly

GridEdgesCall ==
  /\ op' = Call("GridEdges", "grid", Origin, HexDirE, Zero)
  /\ ret' = [NoRet EXCEPT !.list = GridEdges(grid)]
  /\ ReadOnly

InteriorEdgesCall ==
  /\ op' = Call("InteriorEdges", "grid", Origin, HexDirE, Zero)
  /\ ret' = [NoRet EXCEPT !.list = InteriorEdges(grid)]
  /\ ReadOnly

BoundaryEdgesCall ==
  /\ op' = Call("BoundaryEdges", "grid", Origin, HexDirE, Zero)
  /\ ret' = [NoRet EXCEPT !.list = BoundaryEdges(grid)]
  /\ ReadOnly

InitEdges == InitWith(-1..MaxEdgeRadius)

NextEdges ==
  \/ SizeCall
  \/ AllCall
  \/ \E c \in EdgeCoords, d \in HexDirection : normalizeEdgeCall(c, d)
  \/ GridEdgesCall
  \/ InteriorEdgesCall
  \/ BoundaryEdgesCall

SpecEdges == InitEdges /\ [][NextEdges]_vars

(* ------------------- SpecIter: the queries of a grid ------------------- *)

\* A query changes nothing a later call could see: a run of SpecIter ends
\* with it, nops moving past MaxOps.
LastCall ==
  /\ nops <= MaxOps
  /\ nops' = MaxOps + 1
  /\ UNCHANGED <<heap, grid, clone, pre, last, arg, otherVars>>

RingCall(d) ==
  /\ LastCall
  /\ op' = Call("Ring", "grid", Origin, HexDirE, d)
  /\ ret' = [NoRet EXCEPT !.list = Ring(grid, d)]

HexSpiralCall(c, r) ==
  /\ LastCall
  /\ op' = Call("HexSpiral", "grid", c, HexDirE, r)
  /\ ret' = [NoRet EXCEPT !.list = HexSpiral(c, r)]

ForEachCall ==
  /\ LastCall
  /\ op' = Call("ForEach", "grid", Origin, HexDirE, Zero)
  /\ ret' = [NoRet EXCEPT !.list = ForEach(heap, grid)]

ForEachSetCall ==
  /\ LastCall
  /\ op' = Call("ForEachSet", "grid", Origin, HexDirE, Zero)
  /\ ret' = [NoRet EXCEPT !.bag = ForEachSet(heap, grid)]

ForEachRingCall(d) ==
  /\ LastCall
  /\ op' = Call("ForEachRing", "grid", Origin, HexDirE, d)
  /\ LET res == ForEachRing(heap, grid, d)
     IN  ret' = [NoRet EXCEPT !.ok = res.ok, !.list = res.calls]

NeighborsCall(c) ==
  /\ LastCall
  /\ op' = Call("Neighbors", "grid", c, HexDirE, Zero)
  /\ ret' = [NoRet EXCEPT !.list = Neighbors(grid, c)]

NextIter ==
  \/ \E c \in CloneCoords, v \in Values : SetCall("grid", c, v)
  \/ \E c \in CloneCoords : DeleteCall("grid", c)
  \/ \E v \in Values : FillCall("grid", v)
  \/ ClearCall("grid")
  \/ AllCall
  \/ \E c \in CloneCoords, r \in IterRadii : HexSpiralCall(c, r)
  \/ \E d \in IterRadii : RingCall(d)
  \/ ForEachCall
  \/ ForEachSetCall
  \/ \E d \in IterRadii : ForEachRingCall(d)
  \/ \E c \in IterCoords : NeighborsCall(c)

SpecIter == Init /\ [][NextIter]_vars

(* ------------------- SpecHex: the coordinate functions ----------------- *)

\* SpecHex makes one call in a run: a coordinate function reads no state
NoCallYet == op.name = "NewHexGrid"

DistanceCall(a, b) ==
  /\ NoCallYet
  /\ op' = Call2("Distance", a, b)
  /\ ret' = [NoRet EXCEPT !.val = Distance(a, b)]
  /\ ReadOnly

LengthCall(a) ==
  /\ NoCallYet
  /\ op' = Call("Length", "grid", a, HexDirE, Zero)
  /\ ret' = [NoRet EXCEPT !.val = Length(a)]
  /\ ReadOnly

HexRingCall(c, r) ==
  /\ NoCallYet
  /\ op' = Call("HexRing", "grid", c, HexDirE, r)
  /\ ret' = [NoRet EXCEPT !.list = HexRing(c, r)]
  /\ ReadOnly

HexLineCall(a, b) ==
  /\ NoCallYet
  /\ op' = Call2("HexLine", a, b)
  /\ \E l \in HexLine(a, b) : ret' = [NoRet EXCEPT !.list = l]
  /\ ReadOnly

InitHex == InitWith({0})

NextHex ==
  \/ \E a \in HexCoords, b \in HexCoords : DistanceCall(a, b)
  \/ \E a \in HexCoords : LengthCall(a)
  \/ \E c \in HexCoords, r \in HexRadii : HexRingCall(c, r)
  \/ \E a \in HexCoords, b \in HexCoords : HexLineCall(a, b)

SpecHex == InitHex /\ [][NextHex]_vars

(* ----------------- SpecLayout: pixels, cells and edges ----------------- *)
\* SpecLayout makes one call in a run, like SpecHex.

Dens == 1..MaxDen

\* the numerators of the fractional coordinates over den
Fractions(den) == (-MaxHexRadius * den)..(MaxHexRadius * den)

hexRoundCall(q, r, den, es) ==
  /\ NoCallYet
  /\ op' = FCall("hexRound", q, r, den, es)
  /\ ret' = [NoRet EXCEPT !.cell = hexRound(q * Ulps, r * Ulps, den * Ulps, es)]
  /\ ReadOnly

UnitLayout == NewHexLayout(Vec2(Whole(1), Whole(1)), Vec2(Whole(0), Whole(0)))

\* the layout of the tests
TestLayout == NewHexLayout(Vec2(Whole(20), Whole(20)), Vec2(Whole(100), Whole(100)))

\* the layout of the tests, a layout with unequal sizes and a mirrored Y
\* axis, and one with a fractional size and an irrational origin
Layouts ==
  {UnitLayout,
   TestLayout,
   NewHexLayout(Vec2(Whole(2), Whole(-1)), Vec2(Whole(0), Whole(3))),
   NewHexLayout(Vec2(Ratio(1, 2), Ratio(1, 2)), Vec2(sqrt3, Whole(-1)))}

\* the first ints float32 does not hold
BeyondFloat32 ==
  {HexCoord(MaxExactFloat32 + 1, 0), HexCoord(0, -MaxExactFloat32 - 1),
   HexCoord(-MaxExactFloat32 - 1, MaxExactFloat32 + 1)}

\* one triple of rounding errors for every cell the build can resolve p to
Roundings(l, p) ==
  LET f == FromPixelFractional(l, p)
  IN  {CHOOSE err \in Errors : hexRoundFractional(f, err) = c :
         c \in {hexRoundFractional(f, err) : err \in Errors}}

\* recovered := layout.FromPixel(layout.ToPixel(h))
RoundTripCall(l, h) ==
  /\ NoCallYet
  /\ \E err \in Roundings(l, ToPixel(l, h)) :
       /\ op' = LCall("RoundTrip", l, h, ToPixel(l, h), err)
       /\ ret' = [NoRet EXCEPT !.cell = FromPixel(l, ToPixel(l, h), err)]
  /\ ReadOnly

\* the points and segments of TestPointToSegmentDistance and of the
\* scenarios, and points around them
SegmentPoints ==
  {Vec2(Whole(x), Whole(y)) : x \in {-3, 0, 3, 5, 10, 12}, y \in {0, 3, 4}}

SegmentEnds ==
  {Vec2(Whole(0), Whole(0)), Vec2(Whole(10), Whole(0)), Vec2(Whole(3), Whole(4)),
   Vec2(Whole(0), Whole(3)), Vec2(Ratio(-3, 2), Whole(-1))}

PointToSegmentDistanceCall(p, a, b) ==
  /\ NoCallYet
  /\ op' = SCall("PointToSegmentDistance", p, a, b)
  /\ LET res == PointToSegmentDistance(p.X, p.Y, a.X, a.Y, b.X, b.Y)
     IN  ret' = [NoRet EXCEPT !.distance = res.distance, !.t = res.t]
  /\ ReadOnly

\* the tester of the tests, testers whose threshold is below and above
\* the distance from the centre to an edge, zero and negative, and one
\* whose hexes are larger than the cells of its layout
Testers ==
  {NewHexHitTester(TestLayout, Whole(20), Whole(5)),
   NewHexHitTester(UnitLayout, Whole(1), Ratio(1, 4)),
   NewHexHitTester(UnitLayout, Whole(1), Whole(1)),
   NewHexHitTester(UnitLayout, Whole(1), Whole(0)),
   NewHexHitTester(UnitLayout, Whole(2), Whole(-1))}

\* the pixel of the fractional coordinates (q/den, r/den)
PixelAt(l, q, r, den) ==
  Vec2(Plus(Times(l.Size.X, Plus(Times(sqrt3, Ratio(q, den)),
                                 Times(Over(sqrt3, Whole(2)), Ratio(r, den)))),
            l.Origin.X),
       Plus(Times(l.Size.Y, Times(Ratio(3, 2), Ratio(r, den))), l.Origin.Y))

\* the points of the cell (0, 0) and of the cells around it: centres,
\* points on edges and on vertices among them
HitPoints(l) ==
  UNION {{PixelAt(l, q, r, den) : q \in -den..den, r \in -den..den} :
           den \in Dens}

GridRadii == -1..MaxRadius

HitTestCall(h, p) ==
  /\ NoCallYet
  /\ \E err \in Roundings(h.Layout, p) :
       /\ op' = TCall("HitTest", h, p, Zero, err)
       /\ ret' = [NoRet EXCEPT !.hit = HitTest(h, p.X, p.Y, err)]
  /\ ReadOnly

HitTestCellCall(h, p) ==
  /\ NoCallYet
  /\ \E err \in Roundings(h.Layout, p) :
       /\ op' = TCall("HitTestCell", h, p, Zero, err)
       /\ ret' = [NoRet EXCEPT !.cell = HitTestCell(h, p.X, p.Y, err)]
  /\ ReadOnly

HitTestEdgeCall(h, p) ==
  /\ NoCallYet
  /\ \E err \in Roundings(h.Layout, p) :
       /\ op' = TCall("HitTestEdge", h, p, Zero, err)
       /\ LET res == HitTestEdge(h, p.X, p.Y, err)
          IN  ret' = [NoRet EXCEPT !.edge = res.edge, !.distance = res.distance]
  /\ ReadOnly

HitTestInGridCall(h, p, gridRadius) ==
  /\ NoCallYet
  /\ \E err \in Roundings(h.Layout, p) :
       /\ op' = TCall("HitTestInGrid", h, p, gridRadius, err)
       /\ ret' = [NoRet EXCEPT !.hit = HitTestInGrid(h, p.X, p.Y, gridRadius, err)]
  /\ ReadOnly

NextHit ==
  \/ \E h \in Testers : \E p \in HitPoints(h.Layout) : HitTestCall(h, p)
  \/ \E h \in Testers : \E p \in HitPoints(h.Layout) : HitTestCellCall(h, p)
  \/ \E h \in Testers : \E p \in HitPoints(h.Layout) : HitTestEdgeCall(h, p)
  \/ \E h \in Testers : \E p \in HitPoints(h.Layout), gridRadius \in GridRadii :
       HitTestInGridCall(h, p, gridRadius)

\* SpecHit: the hit tests, one call in a run
SpecHit == InitHex /\ [][NextHit]_vars

NextLayout ==
  \/ \E p \in SegmentPoints, a \in SegmentEnds, b \in SegmentEnds :
       PointToSegmentDistanceCall(p, a, b)
  \/ \E den \in Dens : \E q \in Fractions(den), r \in Fractions(den), es \in Noise :
       hexRoundCall(q, r, den, es)
  \/ \E l \in Layouts, h \in HexCoords : RoundTripCall(l, h)
  \/ \E h \in BeyondFloat32 : RoundTripCall(UnitLayout, h)

SpecLayout == InitHex /\ [][NextLayout]_vars

(* ----------------- SpecLife: the life of a grid ------------------------ *)
\* The grid and its clone under the mutators of SpecClone and, between
\* them, the queries. A query counts as one of the MaxOps calls.

\* a query on the grid t that reads its map at the coordinates coords
QueryCall(t, coords) ==
  /\ Exists(t)
  /\ nops < MaxOps
  /\ nops' = nops + 1
  /\ heap' = AfterRead(heap, Target(t), coords)
  /\ pre' = Snapshot
  /\ UNCHANGED <<grid, clone, last, arg, otherVars>>

\* the coordinate Get and GetOk read the map at
Looked(g, c) == IF IsValid(g, c) THEN {c} ELSE {}

GetCall(t, c) ==
  /\ QueryCall(t, Looked(Target(t), c))
  /\ op' = Call("Get", t, c, HexDirE, Zero)
  /\ ret' = [NoRet EXCEPT !.val = Get(heap, Target(t), c)]

GetOkCall(t, c) ==
  /\ QueryCall(t, Looked(Target(t), c))
  /\ op' = Call("GetOk", t, c, HexDirE, Zero)
  /\ LET res == GetOk(heap, Target(t), c)
     IN  ret' = [NoRet EXCEPT !.val = res.val, !.ok = res.ok]

IsValidCall(t, c) ==
  /\ QueryCall(t, {})
  /\ op' = Call("IsValid", t, c, HexDirE, Zero)
  /\ ret' = [NoRet EXCEPT !.ok = IsValid(Target(t), c)]

GridAllCall(t) ==
  /\ QueryCall(t, {})
  /\ op' = Call("All", t, Origin, HexDirE, Zero)
  /\ ret' = [NoRet EXCEPT !.list = All(Target(t))]

GridRingCall(t, d) ==
  /\ QueryCall(t, {})
  /\ op' = Call("Ring", t, Origin, HexDirE, d)
  /\ ret' = [NoRet EXCEPT !.list = Ring(Target(t), d)]

GridNeighborsCall(t, c) ==
  /\ QueryCall(t, {})
  /\ op' = Call("Neighbors", t, c, HexDirE, Zero)
  /\ ret' = [NoRet EXCEPT !.list = Neighbors(Target(t), c)]

GridForEachCall(t) ==
  /\ QueryCall(t, Elements(All(Target(t))))
  /\ op' = Call("ForEach", t, Origin, HexDirE, Zero)
  /\ ret' = [NoRet EXCEPT !.list = ForEach(heap, Target(t))]

GridForEachRingCall(t, d) ==
  /\ QueryCall(t, Elements(Ring(Target(t), d)))
  /\ op' = Call("ForEachRing", t, Origin, HexDirE, d)
  /\ LET res == ForEachRing(heap, Target(t), d)
     IN  ret' = [NoRet EXCEPT !.ok = res.ok, !.list = res.calls]

\* the distances SpecLife passes to Ring and ForEachRing
LifeRadii == {0, MaxRadius, MaxRadius + 1}

\* the coordinates SpecLife passes to the queries: the eastern half of the
\* E-W axis
LifeCoords == {c \in CloneCoords : c.Q >= 0}

NextLife ==
  \/ \E t \in Targets, c \in CloneCoords, v \in Values : SetCall(t, c, v)
  \/ \E t \in Targets, c \in CloneCoords : DeleteCall(t, c)
  \/ \E t \in Targets, v \in Values : FillCall(t, v)
  \/ \E t \in Targets : ClearCall(t)
  \/ CloneCall
  \/ \E t \in Targets, c \in LifeCoords : GetCall(t, c)
  \/ \E t \in Targets, c \in LifeCoords : GetOkCall(t, c)
  \/ \E t \in Targets, c \in LifeCoords : IsValidCall(t, c)
  \/ \E t \in Targets : GridAllCall(t)
  \/ \E t \in Targets, d \in LifeRadii : GridRingCall(t, d)
  \/ \E t \in Targets, c \in LifeCoords : GridNeighborsCall(t, c)
  \/ \E t \in Targets : GridForEachCall(t)
  \/ \E t \in Targets, d \in LifeRadii : GridForEachRingCall(t, d)

SpecLife == Init /\ [][NextLife]_vars

(* --------------- SpecRender: the render data of a grid ----------------- *)
\* The grid of Spec, mutated on the E-W axis (Set stores 1, Fill the zero
\* value); a run ends with the call of PrepareGridRenderData.

\* the configuration of the tests, and one whose hexes are smaller than the
\* cells of its layout
RenderConfigs ==
  {DefaultHexRenderConfig(Whole(10)), HexRenderConfig(TestLayout, Ratio(1, 2))}

PrepareGridRenderDataCall(config) ==
  /\ nops <= MaxOps
  /\ nops' = MaxOps + 1
  /\ \E res \in {PrepareGridRenderData(heap, grid, config)} :
       /\ heap' = res.heap
       /\ ret' = [NoRet EXCEPT !.data = res.data]
  /\ op' = RCall("PrepareGridRenderData", config)
  /\ pre' = Snapshot
  /\ UNCHANGED <<grid, clone, last, arg, otherVars>>

NextRender ==
  \/ \E c \in CloneCoords : SetCall("grid", c, 1)
  \/ \E c \in CloneCoords : DeleteCall("grid", c)
  \/ FillCall("grid", Zero)
  \/ ClearCall("grid")
  \/ \E config \in RenderConfigs : PrepareGridRenderDataCall(config)

SpecRender == Init /\ [][NextRender]_vars

(* ------------ SpecShared: one tester shared by goroutines -------------- *)
\* Every goroutine makes one call on the tester *h: the method reads the
\* fields of *h it uses, one in a step of its own, and returns what it
\* computes from the values it has read. The steps of the goroutines
\* interleave freely.

\* the tester of the tests and one with the unit layout
SharedTesters ==
  {NewHexHitTester(TestLayout, Whole(20), Whole(5)),
   NewHexHitTester(UnitLayout, Whole(1), Ratio(1, 4))}

\* the fields of *h a method reads, in the order it reads them
FieldsRead(name) ==
  CASE name \in {"HitTest", "HitTestInGrid"} ->
         <<"Layout", "HexRadius", "EdgeThreshold">>
    [] name \in {"HitTestEdge", "EdgeVertices", "EdgeMidpoint"} ->
         <<"Layout", "HexRadius">>
    [] name \in {"HitTestCell", "CellCenter", "ToPixel", "FromPixel"} ->
         <<"Layout">>

\* FromPixel rounds as exact arithmetic does
NoError == <<0, 0, 0>>

\* the arguments of a call
Args(name, p, coord, edge, gridRadius) ==
  [name |-> name, point |-> p, coord |-> coord, edge |-> edge,
   gridRadius |-> gridRadius]

\* the calls made on the tester h: with a point of the cell (0, 0) near its
\* edge E, the cell (1, -1), the edge NE of that cell and the grid radii
\* -1 and 0
SharedCalls(h) ==
  LET p == PixelAt(h.Layout, 2, 0, 5)
      coord == HexCoord(1, -1)
      edge == HexEdge(coord, HexDirNE)
  IN  {Args(name, p, coord, edge, 0) :
         name \in {"HitTest", "HitTestCell", "HitTestEdge", "HitTestInGrid",
                   "EdgeVertices", "EdgeMidpoint", "CellCenter", "ToPixel",
                   "FromPixel"}}
        \cup {Args("HitTestInGrid", p, coord, edge, -1)}

\* what the method of the call c returns when the fields of its receiver
\* have the values of h
Result(c, h) ==
  CASE c.name = "HitTest" ->
         [NoRet EXCEPT !.hit = HitTest(h, c.point.X, c.point.Y, NoError)]
    [] c.name = "HitTestCell" ->
         [NoRet EXCEPT !.cell = HitTestCell(h, c.point.X, c.point.Y, NoError)]
    [] c.name = "HitTestEdge" ->
         LET res == HitTestEdge(h, c.point.X, c.point.Y, NoError)
         IN  [NoRet EXCEPT !.edge = res.edge, !.distance = res.distance]
    [] c.name = "HitTestInGrid" ->
         [NoRet EXCEPT !.hit = HitTestInGrid(h, c.point.X, c.point.Y,
                                             c.gridRadius, NoError)]
    [] c.name = "EdgeVertices" -> [NoRet EXCEPT !.list = EdgeVertices(h, c.edge)]
    [] c.name = "EdgeMidpoint" ->
         [NoRet EXCEPT !.list = <<EdgeMidpoint(h, c.edge)>>]
    [] c.name = "CellCenter" -> [NoRet EXCEPT !.list = <<CellCenter(h, c.coord)>>]
    [] c.name = "ToPixel" -> [NoRet EXCEPT !.list = <<ToPixel(h.Layout, c.coord)>>]
    [] c.name = "FromPixel" ->
         [NoRet EXCEPT !.cell = FromPixel(h.Layout, c.point, NoError)]

\* a HitTestInGrid that clears the threshold of its receiver
AfterStep_InGridClearsThreshold(h, c) ==
  IF c.name = "HitTestInGrid" THEN [h EXCEPT !.EdgeThreshold = Whole(0)] ELSE h

\* the fields of the tester h after a step of the call c: the methods
\* assign to no field of their receiver
AfterStep(h, c) == h

Running(g) == calls[g].pc = "run"

\* tester := NewHexHitTester(layout, hexRadius, edgeThreshold)
NewHexHitTesterCall(h) ==
  /\ tester = NoTester
  /\ tester' = h
  /\ UNCHANGED <<gridVars, op, ret, am, mem, calls>>

\* the goroutine g calls a method; args is the call, self the fields of the
\* tester at the call, local the values read so far, overlap whether another
\* call was running
BeginCall(g) ==
  /\ tester # NoTester
  /\ calls[g] = Idle
  /\ \E args \in SharedCalls(tester) :
       calls' = [calls EXCEPT ![g] =
                   [pc |-> "run", args |-> args, self |-> tester,
                    local |-> NoTester, nread |-> 0, ret |-> NoRet,
                    overlap |-> \E other \in Goroutines \ {g} : Running(other)]]
  /\ UNCHANGED <<gridVars, op, ret, am, mem, tester>>

\* the method of g reads the next field it uses
ReadField(g) ==
  /\ Running(g)
  /\ calls[g].nread < Len(FieldsRead(calls[g].args.name))
  /\ LET field == FieldsRead(calls[g].args.name)[calls[g].nread + 1]
         value == tester[field]
     IN  calls' = [calls EXCEPT ![g].local[field] = value,
                                ![g].nread = @ + 1]
  /\ tester' = AfterStep(tester, calls[g].args)
  /\ UNCHANGED <<gridVars, op, ret, am, mem>>

\* the method of g returns
Return(g) ==
  /\ Running(g)
  /\ calls[g].nread = Len(FieldsRead(calls[g].args.name))
  /\ \E res \in {Result(calls[g].args, calls[g].local)} :
       calls' = [calls EXCEPT ![g].pc = "done", ![g].ret = res]
  /\ tester' = AfterStep(tester, calls[g].args)
  /\ UNCHANGED <<gridVars, op, ret, am, mem>>

NextShared ==
  \/ \E h \in SharedTesters : NewHexHitTesterCall(h)
  \/ \E g \in Goroutines : BeginCall(g)
  \/ \E g \in Goroutines : ReadField(g)
  \/ \E g \in Goroutines : Return(g)

SpecShared == InitHex /\ [][NextShared]_vars

(* ------------------- SpecAnim: the animation manager ------------------- *)
\* Time is counted in ticks. SimpleRotation allocates the objects in order;
\* AddAnimation may add an object the caller still holds a second time.

Durations == 0..MaxDuration

Deltas == 0..MaxDelta

\* SimpleRotation turns the target from the angle 0 to the angle 1.
Allocated == {p \in AnimRefs : mem[p] # NoAnimation}

SimpleRotationCall(duration) ==
  /\ Allocated # AnimRefs
  /\ Len(am.Animations) < MaxAnims
  /\ LET p == CHOOSE x \in AnimRefs \ Allocated :
                \A y \in AnimRefs \ Allocated : x <= y
     IN  /\ mem' = [mem EXCEPT ![p] = Animation(0, 1, duration, EaseLinear)]
         /\ am' = AddAnimation(am, p)
         /\ op' = Call("SimpleRotation", "am", Origin, HexDirE, p)
  /\ UNCHANGED <<gridVars, ret, tester, calls>>

AddAnimationCall(p) ==
  /\ p \in Allocated
  /\ Len(am.Animations) < MaxAnims
  /\ am' = AddAnimation(am, p)
  /\ op' = Call("AddAnimation", "am", Origin, HexDirE, p)
  /\ UNCHANGED <<gridVars, ret, mem, tester, calls>>

UpdateCall(deltaTime) ==
  /\ \E res \in {Update(am, mem, deltaTime)} :
       mem' = res.mem /\ am' = res.am
  /\ op' = Call("Update", "am", Origin, HexDirE, deltaTime)
  /\ UNCHANGED <<gridVars, ret, tester, calls>>

InitAnim == InitWith({0})

NextAnim ==
  \/ \E duration \in Durations : SimpleRotationCall(duration)
  \/ \E p \in AnimRefs : AddAnimationCall(p)
  \/ \E deltaTime \in Deltas : UpdateCall(deltaTime)

\* The frame loop calls Update every frame with the time since the last one.
SpecAnim ==
  /\ InitAnim
  /\ [][NextAnim]_vars
  /\ WF_vars(\E deltaTime \in Deltas \ {0} : UpdateCall(deltaTime))

(* ------------------------------ properties ----------------------------- *)

\* everything a caller can read from grid g
Observed(h, g) ==
  [radius |-> Radius(g),
   count  |-> Count(h, g),
   get    |-> [c \in Coords |-> Get(h, g, c)],
   getOk  |-> [c \in Coords |-> GetOk(h, g, c)]]

Mutations == {"Set", "Delete", "Fill", "Clear"}

Absent == [val |-> Zero, ok |-> FALSE]

Elems(l) == {l[i] : i \in 1..Len(l)}

NoRepeats(l) == \A i, j \in 1..Len(l) : i # j => l[i] # l[j]

\* the coordinates within hex-distance r of the origin
CellsWithin(r) == {c \in EdgeCoords : Length(c) <= r}

Canonical == {HexDirE, HexDirNE, HexDirNW}

\* C1: a Set or Delete on a coordinate with Length() > radius returns false
\* and leaves Count() and every GetOk result as they were; Get and GetOk of
\* such a coordinate return the zero value and (zero, false); a Set or Delete
\* on a coordinate with Length() <= radius returns true.
C1_OutOfRadiusRejected ==
  /\ op.name \in {"Set", "Delete"} =>
       IF Length(op.coord) > grid.radius
       THEN /\ ret.ok = FALSE
            /\ Count(heap, grid) = Count(pre.heap, pre.grid)
            /\ \A c \in Coords :
                 GetOk(heap, grid, c) = GetOk(pre.heap, pre.grid, c)
       ELSE ret.ok = TRUE
  /\ \A c \in Coords :
       Length(c) > grid.radius =>
         /\ Get(heap, grid, c) = Zero
         /\ GetOk(heap, grid, c) = Absent

\* a Set on an out-of-radius coordinate was rejected on a grid that holds values
C1_Witness ==
  /\ op.name = "Set"
  /\ Length(op.coord) > grid.radius
  /\ grid.radius >= 1
  /\ Count(heap, grid) >= 1

\* C2: for every valid coordinate c, GetOk(c) is (v, true) exactly when the
\* most recent mutation that touched c was Set(c, v) or Fill(v), and
\* (zero, false) otherwise; Get(c) returns the value GetOk(c) returns; a Set
\* or Delete on c changes the GetOk result of no other coordinate.
C2_GetOkIsLastMutation ==
  /\ \A c \in Coords :
       Length(c) <= grid.radius =>
         /\ last[c].kind = "stored" =>
              GetOk(heap, grid, c) = [val |-> last[c].val, ok |-> TRUE]
         /\ last[c].kind # "stored" => GetOk(heap, grid, c) = Absent
         /\ Get(heap, grid, c) = GetOk(heap, grid, c).val
  /\ op.name \in {"Set", "Delete"} =>
       \A d \in Coords \ {op.coord} :
         GetOk(heap, grid, d) = GetOk(pre.heap, pre.grid, d)

\* a Delete removed a stored value while other cells keep theirs
C2_Witness ==
  /\ op.name = "Delete"
  /\ op.coord \in DOMAIN pre.heap[pre.grid.data]
  /\ Count(heap, grid) >= 1

\* C3: Clone() returns a grid of the same radius with the same GetOk result
\* for every coordinate; afterwards a Set, Delete, Fill or Clear on the clone
\* leaves every Get, GetOk and Count of the original unchanged, and one on
\* the original leaves the clone unchanged.
C3_CloneIndependent ==
  /\ op.name = "Clone" =>
       /\ Radius(clone) = Radius(grid)
       /\ \A c \in Coords : GetOk(heap, clone, c) = GetOk(heap, grid, c)
       /\ Observed(heap, grid) = Observed(pre.heap, pre.grid)
  /\ (op.name \in Mutations /\ pre.clone # NoGrid) =>
       /\ op.target = "clone" =>
            Observed(heap, grid) = Observed(pre.heap, pre.grid)
       /\ op.target = "grid" =>
            Observed(heap, clone) = Observed(pre.heap, pre.clone)

\* the clone of a grid that holds a value was changed by a call on the clone
C3_Witness ==
  /\ op.name \in Mutations
  /\ op.target = "clone"
  /\ Count(heap, grid) >= 1
  /\ Observed(heap, clone) # Observed(pre.heap, pre.clone)

\* C4: Size() is 3r^2 + 3r + 1, which is the number of coordinates with
\* Length() <= r; All() has Size() elements, all valid, none repeated, and
\* holds every coordinate with Length() <= r.
C4_SizeMatchesAll ==
  LET r == grid.radius
  IN  /\ op.name = "Size" =>
            /\ ret.val = 3 * r * r + 3 * r + 1
            /\ ret.val = Cardinality(CellsWithin(r))
      /\ op.name = "All" =>
            /\ Len(ret.list) = Size(grid)
            /\ \A i \in 1..Len(ret.list) : IsValid(grid, ret.list[i])
            /\ NoRepeats(ret.list)
            /\ CellsWithin(r) \subseteq Elems(ret.list)

\* All() was called on a grid of radius 2 or more
C4_Witness ==
  /\ op.name = "All"
  /\ grid.radius >= 2
  /\ Len(ret.list) >= 19

\* C5: every HexEdge returned by GridEdges, InteriorEdges, BoundaryEdges
\* and normalizeEdge has Dir in {E, NE, NW}.
C5_EveryEdgeCanonical ==
  /\ op.name \in {"GridEdges", "InteriorEdges", "BoundaryEdges"} =>
       \A i \in 1..Len(ret.list) : ret.list[i].Dir \in Canonical
  /\ op.name = "normalizeEdge" => ret.edge.Dir \in Canonical

\* C6: normalizeEdge(c, d) equals normalizeEdge(c.Neighbor(d), (d+3) mod 6),
\* its Dir is E, NE or NW, and it is (c, d) when d is E, NE or NW.
C6_SharedEdgeIdentity ==
  op.name = "normalizeEdge" =>
    /\ ret.edge = normalizeEdge(Neighbor(op.coord, op.dir), (op.dir + 3) % 6)
    /\ ret.edge.Dir \in Canonical
    /\ op.dir \in Canonical => ret.edge = HexEdge(op.coord, op.dir)

\* normalizeEdge was called with W, SW or SE and answered with the neighbour
C6_Witness ==
  /\ op.name = "normalizeEdge"
  /\ op.dir > HexDirNW
  /\ ret.edge.Coord = Neighbor(op.coord, op.dir)

\* C7: GridEdges returns the canonical edge normalizeEdge(c, d) of every
\* valid cell c and every one of the six directions d, and every edge it
\* returns borders a valid cell.
C7_GridEdgesHasEveryEdge ==
  op.name = "GridEdges" =>
    /\ \A c \in CellsWithin(grid.radius), d \in HexDirection :
         normalizeEdge(c, d) \in Elems(ret.list)
    /\ \A e \in Elems(ret.list) :
         \/ Length(e.Coord) <= grid.radius
         \/ Length(Neighbor(e.Coord, e.Dir)) <= grid.radius

\* C8: GridEdges returns, for every valid cell, its E, NE and NW edge and
\* nothing else: 3 * Size() edges, none of them twice.
C8_ThreeEdgesPerCell ==
  op.name = "GridEdges" =>
    /\ Len(ret.list) = 3 * Size(grid)
    /\ NoRepeats(ret.list)
    /\ Elems(ret.list) =
         {HexEdge(c, d) : c \in CellsWithin(grid.radius), d \in Canonical}

\* GridEdges was called on a grid of more than one cell
C8_Witness ==
  /\ op.name = "GridEdges"
  /\ grid.radius >= 1
  /\ Len(ret.list) >= 21

\* C9: BoundaryEdges returns exactly the pairs (c, d) with c valid, d any of
\* the six directions and c.Neighbor(d) not valid, each once; 18 of them for
\* a radius-1 grid.
C9_BoundaryEdgesExact ==
  op.name = "BoundaryEdges" =>
    /\ NoRepeats(ret.list)
    /\ Elems(ret.list) =
         {e \in {HexEdge(c, d) : c \in CellsWithin(grid.radius), d \in HexDirection} :
            Length(Neighbor(e.Coord, e.Dir)) > grid.radius}
    /\ grid.radius = 1 => Len(ret.list) = 18

\* BoundaryEdges was called on the radius-1 grid
C9_Witness ==
  /\ op.name = "BoundaryEdges"
  /\ grid.radius = 1
  /\ Len(ret.list) = 18

\* C10: InteriorEdges returns exactly the edges (c, d) with d in {E, NE, NW}
\* and both c and c.Neighbor(d) valid; every unordered pair of adjacent valid
\* cells is the pair of endpoints of exactly one returned edge.
C10_InteriorEdgesExact ==
  op.name = "InteriorEdges" =>
    LET l == ret.list
        cells == CellsWithin(grid.radius)
        Ends(e) == {e.Coord, Neighbor(e.Coord, e.Dir)}
    IN  /\ NoRepeats(l)
        /\ Elems(l) =
             {e \in {HexEdge(c, d) : c \in cells, d \in Canonical} :
                Length(Neighbor(e.Coord, e.Dir)) <= grid.radius}
        /\ \A i \in 1..Len(l) : Ends(l[i]) \subseteq cells
        /\ \A a, b \in cells :
             Distance(a, b) = 1 =>
               Cardinality({i \in 1..Len(l) : Ends(l[i]) = {a, b}}) = 1

\* InteriorEdges was called on a grid with adjacent cells
C10_Witness ==
  /\ op.name = "InteriorEdges"
  /\ grid.radius >= 1
  /\ Len(ret.list) >= 12

\* every coordinate a call of SpecIter can return
IterCells == {c \in [Q : Range(MaxRadius + 3), R : Range(MaxRadius + 3)] :
                Length(c) <= MaxRadius + 3}

\* the valid coordinates of grid g
ValidCells(g) == {c \in IterCells : Length(c) <= g.radius}

\* position of the first element of ring k in a spiral: after the center and
\* the 6 + 12 + ... + 6(k-1) cells of the rings before it
RingStart(k) == 2 + 3 * k * (k - 1)

\* along l the distance from c never decreases
Outward(c, l) ==
  \A i \in 1..(Len(l) - 1) : Distance(c, l[i]) <= Distance(c, l[i + 1])

\* every two consecutive elements of l are adjacent cells
Contiguous(l) == \A i \in 1..(Len(l) - 1) : Distance(l[i], l[i + 1]) = 1

\* C11: for every integer d <= radius, negative d included, Ring(d) returns
\* exactly the coordinates with Length() = d, each once (6d of them for
\* d >= 1, the origin alone for d = 0); for d > radius it returns nothing.
C11_RingIsExactDistance ==
  op.name = "Ring" =>
    LET d == op.value
        l == ret.list
    IN  IF d > grid.radius THEN l = <<>>
        ELSE /\ NoRepeats(l)
             /\ Elems(l) = {c \in IterCells : Length(c) = d}
             /\ d >= 1 => Len(l) = 6 * d
             /\ d = 0 => l = <<Origin>>

C13_RingIsClosedWalk ==
  op.name = "HexRing" =>
    LET c == op.coord
        r == op.value
        l == ret.list
    IN  /\ r >= 1 =>
             /\ Len(l) = 6 * r
             /\ \A i \in 1..Len(l) : Distance(c, l[i]) = r
             /\ l[1] = Add(c, Scale(hexDirectionVectors[HexDirSW], r))
             /\ Contiguous(l)
             /\ NoRepeats(l)
        /\ r <= 0 => l = <<c>>

\* HexRing walked a ring of radius 2 or more around a cell off the origin
C13_Witness ==
  /\ op.name = "HexRing"
  /\ op.value >= 2
  /\ op.coord # Origin
  /\ Len(ret.list) >= 12

\* C14: with n = a.Distance(b), HexLine(a, b) returns n+1 coordinates, the
\* first a, the last b, consecutive ones adjacent, also when an interpolated
\* point lies on the border between two cells; HexLine(a, a) is [a].
C14_LineIsContiguous ==
  op.name = "HexLine" =>
    LET a == op.coord
        b == op.other
        n == Distance(a, b)
        l == ret.list
    IN  /\ Len(l) = n + 1
        /\ l[1] = a
        /\ l[Len(l)] = b
        /\ Contiguous(l)
        /\ a = b => l = <<a>>

\* HexLine was called on a line one of whose interpolated points lies on the
\* border between two cells
C14_Witness ==
  /\ op.name = "HexLine"
  /\ LET n == Distance(op.coord, op.other)
     IN  /\ n >= 2
         /\ \E i \in 1..(n - 1) :
              Cardinality(HexLineCell(op.coord, op.other, i, n)) > 1

\* C15: after Fill(v), Count() = Size(), Get(c) = v and GetOk(c) = (v, true)
\* for every valid c, and no coordinate outside the radius is stored.
C15_FillSetsEveryCell ==
  op.name = "Fill" =>
    /\ Count(heap, grid) = Size(grid)
    /\ \A c \in ValidCells(grid) :
         /\ Get(heap, grid, c) = op.value
         /\ GetOk(heap, grid, c) = [val |-> op.value, ok |-> TRUE]
    /\ \A c \in DOMAIN heap[grid.data] : Length(c) <= grid.radius

\* Fill was called on a grid of several cells that already held a value
C15_Witness ==
  /\ op.name = "Fill"
  /\ grid.radius >= 1
  /\ Count(pre.heap, pre.grid) >= 1
  /\ Count(pre.heap, pre.grid) < Size(grid)

\* C16: a grid made by NewHexGrid(r) with r < 0 is a grid of radius 0:
\* Radius() = 0, Size() = 1, the origin is the only valid coordinate, and a
\* Set on any other coordinate returns false and stores nothing.
C16_NegativeRadiusIsZero ==
  arg < 0 =>
    /\ Radius(grid) = 0
    /\ Radius(grid) = Radius(NewHexGrid(EmptyHeap, 0, 1).g)
    /\ Size(grid) = 1
    /\ \A c \in Coords : IsValid(grid, c) <=> c = Origin
    /\ DOMAIN heap[grid.data] \subseteq {Origin}
    /\ (op.name = "Set" /\ op.coord # Origin) => ret.ok = FALSE
    /\ (op.name = "Set" /\ op.coord = Origin) => ret.ok = TRUE

\* a Set off the origin was refused by a grid made with a negative radius
C16_Witness ==
  /\ arg < 0
  /\ op.name = "Set"
  /\ op.coord # Origin
  /\ ret.ok = FALSE

\* C17: ForEach calls fn once for every valid coordinate, in the order of
\* All(), with the stored value or zero for an unset cell, Size() calls in
\* all; ForEachSet calls fn once for every stored entry with its value and
\* for no unset cell, Count() calls in all.
C17_ForEachVisitsOnce ==
  /\ op.name = "ForEach" =>
       LET l == ret.list
       IN  /\ Len(l) = Size(grid)
           /\ \A i \in 1..Len(l) :
                /\ l[i].coord = All(grid)[i]
                /\ l[i].value = Get(heap, grid, l[i].coord)
           /\ \A c \in ValidCells(grid) :
                Cardinality({i \in 1..Len(l) : l[i].coord = c}) = 1
  /\ op.name = "ForEachSet" =>
       /\ BagCardinality(ret.bag) = Count(heap, grid)
       /\ \A e \in BagToSet(ret.bag) :
            /\ CopiesIn(e, ret.bag) = 1
            /\ GetOk(heap, grid, e.coord) = [val |-> e.value, ok |-> TRUE]
       /\ \A c \in ValidCells(grid) :
            GetOk(heap, grid, c).ok =>
              BagIn(FnCall(c, Get(heap, grid, c)), ret.bag)

\* ForEachSet ran on a grid that holds some values and not others
C17_Witness ==
  /\ op.name = "ForEachSet"
  /\ grid.radius >= 1
  /\ BagCardinality(ret.bag) >= 1
  /\ BagCardinality(ret.bag) < Size(grid)

\* C18: ForEachRing(d, fn) returns false and never calls fn when d > radius;
\* for every integer d <= radius it returns true and calls fn once for each
\* coordinate of Ring(d), every one of them at distance exactly d, with the
\* stored value or zero.
C18_ForEachRingAtDistance ==
  op.name = "ForEachRing" =>
    LET d == op.value
        l == ret.list
    IN  IF d > grid.radius THEN ret.ok = FALSE /\ l = <<>>
        ELSE /\ ret.ok = TRUE
             /\ Len(l) = Len(Ring(grid, d))
             /\ \A i \in 1..Len(l) :
                  /\ l[i].coord = Ring(grid, d)[i]
                  /\ Length(l[i].coord) = d
                  /\ l[i].value = Get(heap, grid, l[i].coord)
             /\ NoRepeats(l)

\* C19: for any coordinate c, valid or not, Neighbors(c) returns exactly the
\* c.Neighbor(d) that are valid, in direction order E..SE: 6 of them when
\* c.Length() < radius and none when c.Length() > radius + 1.
C19_NeighborsAreValidOnes ==
  op.name = "Neighbors" =>
    LET c == op.coord
        l == ret.list
        dirs == {d \in HexDirection : Length(Neighbor(c, d)) <= grid.radius}
    IN  /\ Len(l) = Cardinality(dirs)
        /\ Len(l) <= 6
        /\ \A i \in 1..Len(l) :
             \E d \in dirs :
               /\ l[i] = Neighbor(c, d)
               /\ Cardinality({e \in dirs : e < d}) = i - 1
        /\ Length(c) < grid.radius => Len(l) = 6
        /\ Length(c) > grid.radius + 1 => Len(l) = 0

\* Neighbors answered with some cells, not all six, for a coordinate outside
\* the grid
C19_Witness ==
  /\ op.name = "Neighbors"
  /\ Length(op.coord) > grid.radius
  /\ Len(ret.list) >= 1
  /\ Len(ret.list) < 6

\* C20: a.Distance(b) = b.Distance(a) = (|dq| + |dr| + |ds|) / 2 with the
\* sum even, it is 0 exactly when a = b, it is 1 when b is one of the six
\* neighbours of a, and a.Length() = a.Distance(origin).
C20_DistanceIsMetric ==
  /\ op.name = "Distance" =>
       LET a == op.coord
           b == op.other
           sum == abs(a.Q - b.Q) + abs(a.R - b.R) + abs(S(a) - S(b))
       IN  /\ ret.val = Distance(b, a)
           /\ sum % 2 = 0
           /\ 2 * ret.val = sum
           /\ ret.val = 0 <=> a = b
           /\ \A d \in HexDirection : b = Neighbor(a, d) => ret.val = 1
  /\ op.name = "Length" => ret.val = Distance(op.coord, Origin)

\* Distance was asked between a cell off the origin and one of its neighbours
C20_Witness ==
  /\ op.name = "Distance"
  /\ op.coord # Origin
  /\ \E d \in HexDirection : op.other = Neighbor(op.coord, d)
  /\ ret.val = 1

\* the number of entries of list that are the object p
RECURSIVE Occurrences(_, _)
Occurrences(list, p) ==
  IF list = <<>> THEN 0
  ELSE (IF Head(list) = p THEN 1 ELSE 0) + Occurrences(Tail(list), p)

\* after Update returns no animation left in the list is Completed
NoneCompletedLeft ==
  [][op'.name = "Update" =>
       \A i \in 1..Len(am'.Animations) : ~mem'[am'.Animations[i]].Completed]_vars

\* an animation of positive Duration is completed and removed by the first
\* Update at which its Timer reaches the Duration
RemovedWhenDue ==
  [][op'.name = "Update" =>
       \A p \in Allocated :
         ( /\ Occurrences(am.Animations, p) > 0
           /\ ~mem[p].Completed
           /\ mem[p].Duration > 0
           /\ mem'[p].Timer >= mem[p].Duration )
         => /\ mem'[p].Completed
            /\ Occurrences(am'.Animations, p) = 0]_vars

\* a listed animation of positive Duration is eventually removed
EventuallyRemoved ==
  \A p \in AnimRefs :
    (mem[p] # NoAnimation /\ mem[p].Duration > 0
       /\ Occurrences(am.Animations, p) > 0)
      ~> (Occurrences(am.Animations, p) = 0)

\* C30: after Update returns no remaining animation is Completed and every
\* listed animation not completed remains in the list as often as it was
\* added to it; an animation with a positive Duration is completed and
\* removed by the first Update at which its Timer reaches the Duration, and
\* under repeated Updates whose deltaTime is at least one tick it is
\* eventually removed.
C30_UpdateRemovesCompleted ==
  /\ NoneCompletedLeft
  /\ [][op'.name = "Update" =>
          \A p \in Allocated :
            ~mem'[p].Completed =>
              Occurrences(am'.Animations, p) = Occurrences(am.Animations, p)]_vars
  /\ RemovedWhenDue
  /\ EventuallyRemoved

\* C30 as stated: every listed animation not completed remains in the list
\* exactly once
C30_RemainsExactlyOnce ==
  /\ NoneCompletedLeft
  /\ [][op'.name = "Update" =>
          \A p \in Allocated :
            (Occurrences(am.Animations, p) > 0 /\ ~mem'[p].Completed) =>
              Occurrences(am'.Animations, p) = 1]_vars
  /\ RemovedWhenDue
  /\ EventuallyRemoved

\* an Update has completed and removed one animation and left another one,
\* still running, in the list
C30_Witness ==
  /\ op.name = "Update"
  /\ \E p, q \in Allocated :
       /\ mem[p].Completed /\ mem[p].Duration > 0
       /\ mem[p].Timer >= mem[p].Duration
       /\ Occurrences(am.Animations, p) = 0
       /\ ~mem[q].Completed /\ mem[q].Timer > 0
       /\ Occurrences(am.Animations, q) = 1

\* the components of the cube coordinates of h
Cube(h) == <<h.Q, h.R, S(h)>>

\* the components of (q/den, r/den) with s as hexRound computes it, and
\* their rounding errors, as numerators over den
Fractional(q, r, es) == <<q, r, -q - r + es>>

RoundingError(f, den) == [i \in 1..3 |-> abs(Round(f[i], den) * den - f[i])]

\* the square of the distance of the cell h from (q/den, r/den), over den^2
CubeDistance2(h, q, r, den) ==
  (h.Q * den - q) * (h.Q * den - q) + (h.R * den - r) * (h.R * den - r)
    + (S(h) * den + q + r) * (S(h) * den + q + r)

\* the cells around the cell h
Nearby(h) == {HexCoord(h.Q + dq, h.R + dr) : dq \in -2..2, dr \in -2..2}

\* C27: hexRound rounds q, r and s, then recomputes one component whose
\* rounding error is largest, also among tied ones, as the negation of the
\* other two, which keep their rounded values; the cell it returns is a cell
\* nearest to the fractional input.
C27_RoundResetsLargestError ==
  op.name = "hexRound" =>
    LET den == op.den * Ulps
        f == Fractional(op.q * Ulps, op.r * Ulps, op.err)
        e == RoundingError(f, den)
        c == Cube(ret.cell)
    IN  /\ \E i \in 1..3 :
             /\ \A j \in 1..3 : e[i] >= e[j]
             /\ \A j \in 1..3 \ {i} : c[j] = Round(f[j], den)
             /\ c[1] + c[2] + c[3] = 0
        /\ op.err = 0 =>
             \A h \in Nearby(ret.cell) :
               CubeDistance2(ret.cell, op.q, op.r, op.den)
                 <= CubeDistance2(h, op.q, op.r, op.den)

\* hexRound was given a point where the rounding error of q is the largest
\* one, and has recomputed q to a value other than the rounded one
C27_Witness ==
  /\ op.name = "hexRound"
  /\ LET den == op.den * Ulps
         f == Fractional(op.q * Ulps, op.r * Ulps, op.err)
         e == RoundingError(f, den)
     IN  /\ e[1] > e[2] /\ e[1] > e[3]
         /\ ret.cell.Q # Round(f[1], den)

\* float32 holds the coordinates of h
InFloat32(h) == float32(h.Q) = h.Q /\ float32(h.R) = h.R

Along(a, b, t) ==
  Vec2(Plus(a.X, Times(t, Minus(b.X, a.X))), Plus(a.Y, Times(t, Minus(b.Y, a.Y))))

\* the square of the distance from p to c
Apart2(p, c) ==
  Plus(Times(Minus(p.X, c.X), Minus(p.X, c.X)),
       Times(Minus(p.Y, c.Y), Minus(p.Y, c.Y)))

\* (p - a) . (b - a)
Projection(p, a, b) ==
  Plus(Times(Minus(p.X, a.X), Minus(b.X, a.X)),
       Times(Minus(p.Y, a.Y), Minus(b.Y, a.Y)))

\* the points of the segment from a to b that the distance is compared with
Samples(a, b) == {Along(a, b, Ratio(k, 8)) : k \in 0..8}

\* C24: PointToSegmentDistance returns t in [0, 1] and the distance, which
\* is not negative, from p to a + t*(b - a), the point of the segment closest
\* to p, with t = 0 where the projection falls before a and t = 1 where it
\* falls after b; for a = b it returns the distance from p to a and t = 0.
\* (5,3) against (0,0)-(10,0) gives 3 and 1/2, (-3,0) gives 3 and 0, and
\* (3,4) against (0,0)-(0,0) gives 5 and 0.
C24_SegmentDistanceIsClosest ==
  op.name = "PointToSegmentDistance" =>
    LET p == op.point
        a == op.a
        b == op.b
        O == Vec2(Whole(0), Whole(0))
        E == Vec2(Whole(10), Whole(0))
    IN  /\ AtMost(Whole(0), ret.t) /\ AtMost(ret.t, Whole(1))
        /\ ret.distance = sqrt(Apart2(p, Along(a, b, ret.t)))
        /\ Sign(ret.distance.sq) >= 0
        /\ \A c \in Samples(a, b) : AtMost(ret.distance.sq, Apart2(p, c))
        /\ Sign(Projection(p, a, b)) < 0 => ret.t = Whole(0)
        /\ Less(Apart2(a, b), Projection(p, a, b)) => ret.t = Whole(1)
        /\ a = b => ret.t = Whole(0) /\ ret.distance = sqrt(Apart2(p, a))
        /\ (p = Vec2(Whole(5), Whole(3)) /\ a = O /\ b = E)
             => ret.distance = sqrt(Whole(9)) /\ ret.t = Ratio(1, 2)
        /\ (p = Vec2(Whole(-3), Whole(0)) /\ a = O /\ b = E)
             => ret.distance = sqrt(Whole(9)) /\ ret.t = Whole(0)
        /\ (p = Vec2(Whole(3), Whole(4)) /\ a = O /\ b = O)
             => ret.distance = sqrt(Whole(25)) /\ ret.t = Whole(0)

\* the call of the scenario: the point (-3, 0) lies before the start of
\* the segment (0,0)-(10,0), t is clamped to 0 and the distance is 3
C24_Witness ==
  /\ op.name = "PointToSegmentDistance"
  /\ op.point = Vec2(Whole(-3), Whole(0))
  /\ op.a = Vec2(Whole(0), Whole(0)) /\ op.b = Vec2(Whole(10), Whole(0))
  /\ ret.t = Whole(0) /\ ret.distance = sqrt(Whole(9))

\* the cell the call op resolves its point to
Resolved == FromPixel(op.tester.Layout, op.point, op.err)

\* the distances from the point of the call op to the six edges of cell
EdgeDistances(cell) ==
  LET vertices == HexVertices(op.tester.Layout, cell, op.tester.HexRadius)
      at == [dir \in HexDirE..HexDirSE |->
               LET v == HexEdgeVertices(vertices, dir)
               IN  PointToSegmentDistance(op.point.X, op.point.Y,
                                          v[1].X, v[1].Y, v[2].X, v[2].Y).distance]
  IN  <<at[HexDirE], at[HexDirNE], at[HexDirNW], at[HexDirW], at[HexDirSW],
        at[HexDirSE]>>

\* the edges, of distances d, that no other edge is nearer than
NearestDirs(d) ==
  {dir \in HexDirE..HexDirSE :
     \A other \in HexDirE..HexDirSE : AtMost(d[dir + 1].sq, d[other + 1].sq)}

\* the first of the directions dirs in the order E, NE, NW, W, SW, SE
FirstDir(dirs) == CHOOSE dir \in dirs : \A other \in dirs : dir <= other

\* C22: HitTest never returns the type None: the type is Edge if and only if
\* the least distance from the point to the six edges of the cell
\* FromPixel resolves it to is at most EdgeThreshold, and Cell otherwise;
\* Cell is that cell, Edge the canonical form of a nearest edge of it and
\* Distance that least distance; at the centre of a cell, with a threshold
\* below half the hex radius, the type is Cell.
C22_HitTestClassifies ==
  op.name = "HitTest" =>
    LET cell == Resolved
        d == EdgeDistances(cell)
        nearest == NearestDirs(d)
    IN  /\ ret.hit.Type \in {HexHitCell, HexHitEdge}
        /\ ret.hit.Type = HexHitEdge
             <=> \E dir \in nearest : Within(d[dir + 1], op.tester.EdgeThreshold)
        /\ ret.hit.Cell = cell
        /\ \E dir \in nearest :
             /\ ret.hit.Edge = normalizeEdge(cell, dir)
             /\ ret.hit.Distance = d[dir + 1]
        /\ ret.hit.Edge.Dir \in Canonical
        /\ ( /\ op.point = ToPixel(op.tester.Layout, cell)
             /\ Less(op.tester.EdgeThreshold, Over(op.tester.HexRadius, Whole(2))) )
           => ret.hit.Type = HexHitCell

\* HitTest has returned an edge hit whose distance is the threshold itself,
\* for an edge that normalizeEdge moved to the neighbouring cell
C22_Witness ==
  /\ op.name = "HitTest"
  /\ ret.hit.Type = HexHitEdge
  /\ ret.hit.Distance = sqrt(Times(op.tester.EdgeThreshold, op.tester.EdgeThreshold))
  /\ ret.hit.Edge.Coord # ret.hit.Cell

\* C23: HitTestInGrid returns the type None if and only if the cell that
\* HitTest resolves has a Length() above gridRadius, so always for a
\* negative gridRadius; otherwise it returns the result of HitTest.
C23_InGridFiltersByLength ==
  op.name = "HitTestInGrid" =>
    LET result == HitTest(op.tester, op.point.X, op.point.Y, op.err)
    IN  /\ ret.hit.Type = HexHitNone <=> Length(result.Cell) > op.value
        /\ op.value < 0 => ret.hit.Type = HexHitNone
        /\ ret.hit.Type # HexHitNone => ret.hit = result

\* HitTestInGrid has returned the result of HitTest for a cell on the
\* outermost ring of the grid
C23_Witness ==
  /\ op.name = "HitTestInGrid"
  /\ op.value > 0
  /\ ret.hit.Type = HexHitEdge
  /\ Length(ret.hit.Cell) = op.value

\* C29: HitTestCell returns the Cell of HitTest and HitTestEdge its Edge and
\* Distance; both take the first of equally near edges in the order E, NE,
\* NW, W, SW, SE.
C29_CellAndEdgeAgreeWithHitTest ==
  op.name \in {"HitTestCell", "HitTestEdge", "HitTest"} =>
    LET result == HitTest(op.tester, op.point.X, op.point.Y, op.err)
        cell == Resolved
        first == FirstDir(NearestDirs(EdgeDistances(cell)))
    IN  /\ op.name = "HitTestCell" => ret.cell = result.Cell
        /\ op.name = "HitTestEdge" =>
             /\ ret.edge = result.Edge
             /\ ret.distance = result.Distance
             /\ ret.edge = normalizeEdge(cell, first)
        /\ op.name = "HitTest" => ret.hit.Edge = normalizeEdge(cell, first)

\* HitTestEdge was called with a point as near to the edge NE of its cell
\* as to later ones and to none before it, and has returned the edge NE
C29_Witness ==
  /\ op.name = "HitTestEdge"
  /\ LET nearest == NearestDirs(EdgeDistances(Resolved))
     IN  FirstDir(nearest) = HexDirNE /\ Cardinality(nearest) > 1
  /\ ret.edge = HexEdge(Resolved, HexDirNE)

\* what the call c returns when no other call runs: the result of its
\* method for the fields the tester had when it was called
Alone(c) == Result(c.args, c.self)

\* C26: no step of a method of the tester or of its layout changes a field
\* of the tester, and every call that has returned, however the steps of
\* the calls interleaved, has returned what it returns when it runs alone.
C26_SharedTesterIsImmutable ==
  /\ [][tester # NoTester => tester' = tester]_vars
  /\ [](\A g \in Goroutines :
          calls[g].pc = "done" => calls[g].ret = Alone(calls[g]))

\* HitTest, called while HitTestInGrid was running on the same tester, has
\* returned an edge hit after HitTestInGrid returned
C26_Witness ==
  /\ calls[1].pc = "done" /\ calls[1].args.name = "HitTestInGrid"
  /\ calls[2].pc = "done" /\ calls[2].args.name = "HitTest"
  /\ calls[2].overlap
  /\ calls[2].ret.hit.Type = HexHitEdge

\* the render data of a grid of the radius of grid in which nothing is stored
DataOfEmptyGrid ==
  LET fresh == NewHexGrid(EmptyHeap, grid.radius, 1)
  IN  PrepareGridRenderData(fresh.heap, fresh.g, op.config).data

\* C25: PrepareGridRenderData leaves the contents of the grid and Count()
\* as they were and returns the data of an empty grid of the same radius:
\* Cells is All(), Vertices holds at every index the six vertices of the
\* cell at that index, and the three edge lists are GridEdges,
\* BoundaryEdges and InteriorEdges of the grid.
C25_RenderDataIsPure ==
  op.name = "PrepareGridRenderData" =>
    /\ heap = pre.heap /\ grid = pre.grid
    /\ Count(heap, grid) = Count(pre.heap, pre.grid)
    /\ ret.data = DataOfEmptyGrid
    /\ ret.data.Cells = All(grid)
    /\ Len(ret.data.Vertices) = Len(ret.data.Cells)
    /\ \A i \in 1..Len(ret.data.Cells) :
         /\ DOMAIN ret.data.Vertices[i] = 0..5
         /\ ret.data.Vertices[i] =
              HexVertices3D(op.config.Layout, ret.data.Cells[i], op.config.HexRadius)
    /\ ret.data.AllEdges = GridEdges(grid)
    /\ ret.data.BoundaryEdges = BoundaryEdges(grid)
    /\ ret.data.InteriorEdges = InteriorEdges(grid)

\* PrepareGridRenderData was called on a grid of several cells of which
\* some, not all, hold a value
C25_Witness ==
  /\ op.name = "PrepareGridRenderData"
  /\ grid.radius > 0
  /\ Count(heap, grid) > 0 /\ Count(heap, grid) < Size(grid)
  /\ Len(ret.data.Vertices) = Size(grid)

\* the grids that exist
Grids == {grid, clone} \ {NoGrid}

\* the queries of a grid
Queries ==
  {"Get", "GetOk", "IsValid", "All", "Ring", "Neighbors", "ForEach", "ForEachRing"}

\* C28: in every state of a grid and of its clone, Radius() is the radius
\* NewHexGrid was called with, or 0 for a negative one, no stored key is
\* farther than the radius from the origin, Count() is the number of valid
\* coordinates that GetOk finds, between 0 and Size(), and a query has
\* left the entries of both grids as they were.
C28_GridInvariants ==
  /\ \A g \in Grids :
       /\ Radius(g) = (IF arg < 0 THEN 0 ELSE arg)
       /\ \A c \in DOMAIN heap[g.data] : Length(c) <= Radius(g)
       /\ Count(heap, g) =
            Cardinality({c \in Coords : IsValid(g, c) /\ GetOk(heap, g, c).ok})
       /\ 0 <= Count(heap, g) /\ Count(heap, g) <= Size(g)
  /\ op.name \in Queries =>
       /\ heap = pre.heap /\ grid = pre.grid /\ clone = pre.clone
       /\ \A g \in Grids : Count(heap, g) = Count(pre.heap, g)

\* ForEach has walked a clone that holds some cells, not all, and not as
\* many as the grid it was cloned from
C28_Witness ==
  /\ op.name = "ForEach" /\ op.target = "clone"
  /\ Count(heap, clone) > 0 /\ Count(heap, clone) < Size(clone)
  /\ Count(heap, grid) # Count(heap, clone)
  /\ \E i \in 1..Len(ret.list) : ret.list[i].coord \notin DOMAIN heap[clone.data]

====
